---- MODULE Spec2Model ----
(***************************************************************************)
(* A model of the edgelord NBA trade bot v2 (scripts/nba-trade-bot-v2.ts): *)
(* the order execution guard placeOrder, the position fetch, the           *)
(* profit-taking pass and the signal execution path.                       *)
(*                                                                         *)
(* Prices are integer cents (0..100).  The market cache stores a price as  *)
(* a fraction of a dollar (last_price / 100); the model keeps such a       *)
(* fraction in thousandths of a dollar, so that Math.round(x * 100) is a   *)
(* real rounding and not the identity.  Times are milliseconds.            *)
(***************************************************************************)
EXTENDS Integers, Sequences, FiniteSets, TLC

(***************************************************************************)
(* Bounds of the model.                                                    *)
(***************************************************************************)
\* the clock advances in steps of ClockStep ms, up to MaxNow
ClockStep == 150000
MaxNow == 600000
\* the largest contract count of a position record tried
MaxContracts == 5

(***************************************************************************)
(* Program constants.                                                      *)
(***************************************************************************)
DEDUP_COOLDOWN_MS == 300000
SLIPPAGE == 3
\* a missing price (null), an absent map entry reads as 0 (falsy timestamp)
NULL == -1

Tickers == {"KXNBATRADE-A", "KXNBATRADE-B"}
Sides == {"yes", "no"}
Actions == {"buy", "sell"}
TierNames == {"Confirmed", "Imminent", "Serious", "Negative"}

\* what callers pass as (signal.confidence.name, maxPrice)
TierMax ==
  { <<"Confirmed", 99>>, <<"Imminent", 92>>, <<"Serious", 80>>,
    <<"Negative", 50>>, <<"Confirmed", 5>> }
Counts == {10}
\* best bids the exchange orderbook may show (NULL: that side is empty)
Bids == {NULL, 1, 3, 22, 60}
\* last traded YES prices the exchange may report, in cents
LastPrices == {25, 98}
OrderIds == {101}
NotifyOutcomes == {"sent", "failed"}
InsertOutcomes == {"ok", "error"}
PostOutcomes == {"ok", "rejected", "unsent", "lost"}

Abs(x) == IF x < 0 THEN -x ELSE x
Min(a, b) == IF a < b THEN a ELSE b
Max(a, b) == IF a > b THEN a ELSE b

VARIABLES
  NBA_TRADING_DISABLED, \* the kill switch, fixed when the bot is built
  now,                  \* Date.now()
  recentBuys,           \* ticker -> time of the last accepted buy (0: none)
  yes_price,            \* market cache: ticker -> YES price in thousandths (NULL: not cached)
  gpc,                  \* where placeOrder stands
  call,                 \* the arguments and locals of the placeOrder call in progress
  result,               \* what placeOrder returned
  buyOkAt,              \* history: ticker -> time the guard last saw a buy accepted
  inp,                  \* the input a pure function is applied to
  out,                  \* what it returned
  bot_settings,         \* the bot_settings row in Supabase: settings, updated_at
  botSettings,          \* the settings in memory
  BASE_CONTRACT_COUNT,  \* the base position, assigned with botSettings
  settingsLastFetched,  \* time of the last settings load
  pushPending,          \* a realtime UPDATE event waits for its callback
  market_positions,     \* exchange: ticker -> position (YES), no_position (NO)
  restingSells,         \* exchange: the legs <<ticker, side>> with a resting sell order
  pendingSellOrders,    \* tickers with a sell sent in the last 5 minutes
  sellTimers,           \* the setTimeout callbacks of executeSell still to run
  epc,                  \* where the main loop stands
  sig,                  \* the signal executeSignal is working on, and its locals
  pass,                 \* the locals of the profit-taking pass in progress
  requested,            \* history: the placeOrder requests of the decision in progress
  script,               \* which bot this process runs
  posted,               \* the source's timeline: the tweets 1 .. posted exist
  lastTweetIds,         \* since_id of the source in memory (0: none)
  processedTweets,      \* the ids this process has seen
  tweets,               \* the tweets table in Supabase: the ids stored
  bot_status,           \* the bot_status row: meta.lastTweetIds (0: absent)
  lastProfitTakeCheck,  \* time of the last profit-taking pass (0: none)
  lastTwitterStatusLog, \* time of the last status log of pollTwitter (0: none)
  rpc,                  \* where runBot stands in its tick
  run,                  \* the batch of the tick and the locals of processTweet
  journal,              \* history: the steps of the tick in progress
  thrown,               \* history: the phase whose exception ended the tick
  acted,                \* history: id -> times its signals were extracted
  replayed,             \* history: ids acted on though stored in the tweets table before
  restarts,             \* how often the process has been restarted
  priceHistory,         \* ticker -> the price window: samples of price, timestamp
  volume,               \* market cache: ticker -> volume
  source_predictions,   \* ticker -> a prediction for its player in the last 30 minutes
  spikeSettings,        \* the volume and price-spike fields of botSettings
  spc,                  \* where checkPriceMovements stands
  mon,                  \* the locals of checkPriceMovements for the market at hand
  deadlineNoBuysExecuted, \* the tickers the deadline scan has bought NO on
  dpc,                  \* where checkDeadlineNoBuying stands
  scan,                 \* the locals of checkDeadlineNoBuying
  npc,                  \* where sendTelegramNotification stands
  tg                    \* the locals of sendTelegramNotification

guardVars ==
  <<NBA_TRADING_DISABLED, now, recentBuys, yes_price, gpc, call, result, buyOkAt>>

pureVars == <<inp, out>>

settingsVars ==
  <<bot_settings, botSettings, BASE_CONTRACT_COUNT, settingsLastFetched, pushPending>>

exchangeVars == <<market_positions, restingSells>>

loopVars == <<pendingSellOrders, sellTimers, epc, sig, pass, requested>>

runBotVars ==
  <<script, posted, lastTweetIds, processedTweets, tweets, bot_status,
    lastProfitTakeCheck, lastTwitterStatusLog, rpc, run, journal, thrown,
    acted, replayed, restarts>>

spikeVars ==
  <<priceHistory, volume, source_predictions, spikeSettings, spc, mon>>

deadlineVars == <<deadlineNoBuysExecuted, dpc, scan>>

notifyVars == <<npc, tg>>

engineVars ==
  <<settingsVars, exchangeVars, loopVars, runBotVars, spikeVars, deadlineVars,
    notifyVars>>

\* what the steps of placeOrder leave alone
otherVars == <<pureVars, engineVars>>

vars == <<guardVars, pureVars, engineVars>>

(***************************************************************************)
(* placeOrder: the pure parts.                                             *)
(***************************************************************************)
\* Math.round(x * 100) for a fraction x >= 0 kept in thousandths
Round100(milli) == (milli + 5) \div 10

\* m.last_price / 100
CacheFraction(last_price) == last_price * 10

\* getOrderbook: yes_ask = 100 - best NO bid, no_ask = 100 - best YES bid
getOrderbook(book) ==
  [yes_ask |-> IF book.no # NULL THEN 100 - book.no ELSE NULL,
   no_ask  |-> IF book.yes # NULL THEN 100 - book.yes ELSE NULL]

\* cachedMarket?.yes_price ? Math.round(cachedMarket.yes_price * 100) : null
CachedYesCents(yp) == IF yp # NULL /\ yp # 0 THEN Round100(yp) ELSE NULL

LastPriceNoInversionMut(yp, side) == CachedYesCents(yp)
\* lastPrice: the cached price converted to the order's side
LastPrice(yp, side) ==
  LET yesPrice == CachedYesCents(yp)
  IN IF yesPrice # NULL
       THEN (IF side = "yes" THEN yesPrice ELSE 100 - yesPrice)
       ELSE NULL

\* the orderbook ask is trusted unless it is more than 20c from the last price
ReferencePrice(currentAsk, lastPrice) ==
  IF currentAsk # NULL /\ lastPrice # NULL
    THEN (IF Abs(currentAsk - lastPrice) > 20 THEN lastPrice ELSE currentAsk)
    ELSE (IF currentAsk # NULL THEN currentAsk ELSE lastPrice)

SellPrice(referencePrice, maxPrice) ==
  IF referencePrice # NULL
    THEN (IF referencePrice >= 95 THEN referencePrice
          ELSE Max(referencePrice - 1, 1))
    ELSE maxPrice

\* the buy-side guards: "" when the buy may go on
BuyReject(referencePrice, maxPrice) ==
  IF referencePrice = NULL THEN ""
  ELSE IF referencePrice >= 98 THEN "priced in"
  ELSE IF referencePrice > maxPrice THEN "tier max"
  ELSE ""

BuyPriceUncappedMut(referencePrice, maxPrice, tier) ==
  IF referencePrice = NULL THEN maxPrice
  ELSE IF tier = "Confirmed" THEN maxPrice
  ELSE IF tier = "Imminent" THEN (referencePrice + maxPrice + 1) \div 2
  ELSE referencePrice + SLIPPAGE
\* the limit price of a buy that passed the guards
BuyPrice(referencePrice, maxPrice, tier) ==
  IF referencePrice = NULL THEN maxPrice
  ELSE IF tier = "Confirmed" THEN maxPrice
  ELSE IF tier = "Imminent"
    THEN Min((referencePrice + maxPrice + 1) \div 2, maxPrice)
  ELSE Min(referencePrice + SLIPPAGE, maxPrice)

KillSwitchBuysOnlyMut(action) == NBA_TRADING_DISABLED /\ action = "buy"
\* if (NBA_TRADING_DISABLED): the first statement of placeOrder
KillSwitch(action) == NBA_TRADING_DISABLED

DedupBlocksOffByWindowMut(rb, ticker, t) ==
  rb[ticker] # 0 /\ t - rb[ticker] < DEDUP_COOLDOWN_MS - ClockStep
\* lastBuy && now - lastBuy < DEDUP_COOLDOWN_MS
DedupBlocks(rb, ticker, t) ==
  rb[ticker] # 0 /\ t - rb[ticker] < DEDUP_COOLDOWN_MS

\* every posted buy is tracked, whatever became of it
TracksBuyAnyPostMut(outcome, action) == action = "buy"
\* the dedup map is written after response.ok, for a buy
TracksBuy(outcome, action) == outcome = "ok" /\ action = "buy"

\* recentBuys.set(ticker, Date.now()), then the expired entries are deleted
RecentBuysAfter(rb, ticker, t) ==
  [x \in Tickers |->
     IF x = ticker THEN t
     ELSE IF rb[x] # 0 /\ t - rb[x] > DEDUP_COOLDOWN_MS THEN 0
     ELSE rb[x]]

Failure(err) == [success |-> FALSE, orderId |-> 0, error |-> err]
Success(id) == [success |-> TRUE, orderId |-> id, error |-> ""]
NoResult == [success |-> FALSE, orderId |-> 0, error |-> "pending"]

PostFailureRetriesMut(outcome) == IF outcome = "ok" THEN "notify" ELSE "submit"
\* after the POST: go on to the notification, or return the failure
AfterPost(outcome) == IF outcome = "ok" THEN "notify" ELSE "done"

ResultAfterRecordThrowsMut(insertOutcome, orderId) ==
  IF insertOutcome = "error" THEN Failure("exception") ELSE Success(orderId)
\* the insert's outcome is not inspected: return { success: true, orderId }
ResultAfterRecord(insertOutcome, orderId) == Success(orderId)

\* a tweet as the keyword path sees it: the keyword classes its text holds,
\* the player names found in it (lowercased), the names in a negative
\* context, the actual trade target ("" when none) and the destination team
NoText ==
  [keywords |-> {}, players |-> <<>>, negative |-> {}, actualTarget |-> "",
   team |-> ""]

\* the LLM analysis of a tweet (ok = FALSE: null, the call failed)
NoAnalysis == [ok |-> FALSE, players |-> <<>>]

NoInput ==
  [kind |-> "none", last_price |-> 0, fills |-> <<>>, position |-> 0,
   no_position |-> 0, text |-> NoText, llm |-> NoAnalysis,
   query |-> <<>>, team |-> <<>>, markets |-> 0,
   sizing |-> [basePct |-> 0, confidenceScore |-> 0, currentPrice |-> 0,
               sourceMultiplier |-> 0, base |-> 0]]
NoOutput ==
  [fn |-> "none", side |-> "", value |-> NULL, n |-> 0, legs |-> <<>>,
   signals |-> <<>>, market |-> 0, confidence |-> ""]

NoCall ==
  [ticker |-> "", side |-> "", action |-> "", count |-> 0, maxPrice |-> 0,
   tier |-> "", referencePrice |-> NULL, price |-> NULL, posts |-> 0,
   lookups |-> 0, received |-> 0, accepted |-> FALSE, notify |-> "",
   insert |-> "", dedupDue |-> FALSE, onResting |-> FALSE]

(***************************************************************************)
(* placeOrder: the steps between its awaits.                               *)
(***************************************************************************)
\* from the call to the first await: kill switch, then dedup, then the
\* orderbook request goes out
placeOrderEntry(ticker, side, action, count, maxPrice, tier) ==
  LET blocked == KillSwitch(action)
      deduped == action = "buy" /\ DedupBlocks(recentBuys, ticker, now)
      go == ~blocked /\ ~deduped
  IN /\ call' = [NoCall EXCEPT
                   !.ticker = ticker, !.side = side, !.action = action,
                   !.count = count, !.maxPrice = maxPrice, !.tier = tier,
                   !.lookups = IF go THEN 1 ELSE 0,
                   !.dedupDue = /\ action = "buy"
                                /\ buyOkAt[ticker] # 0
                                /\ now < buyOkAt[ticker] + DEDUP_COOLDOWN_MS]
     /\ result' = IF blocked THEN Failure("Trading disabled")
                  ELSE IF deduped THEN Failure("Dedup")
                  ELSE NoResult
     /\ gpc' = IF go THEN "getOrderbook" ELSE "done"

\* getOrderbook returned: reconcile the reference price, price the order
placeOrderPrice ==
  /\ gpc = "getOrderbook"
  /\ \E book \in [yes : Bids, no : Bids] :
       LET asks == getOrderbook(book)
           currentAsk == IF call.side = "yes" THEN asks.yes_ask ELSE asks.no_ask
           lastPrice == LastPrice(yes_price[call.ticker], call.side)
           ref == ReferencePrice(currentAsk, lastPrice)
           reject == IF call.action = "buy" THEN BuyReject(ref, call.maxPrice) ELSE ""
       IN /\ call' = [call EXCEPT
                        !.referencePrice = ref,
                        !.price = IF call.action = "sell"
                                    THEN SellPrice(ref, call.maxPrice)
                                  ELSE IF reject = ""
                                    THEN BuyPrice(ref, call.maxPrice, call.tier)
                                  ELSE NULL]
          /\ gpc' = IF reject = "" THEN "submit"
                    ELSE IF reject = "tier max" THEN "skipNotify"
                    ELSE "done"
          /\ result' = IF reject = "priced in" THEN Failure("priced in") ELSE result
  /\ UNCHANGED <<NBA_TRADING_DISABLED, now, recentBuys, yes_price, buyOkAt>>
  /\ UNCHANGED otherVars

\* the ORDER SKIPPED notification was sent (or not): return the rejection
placeOrderSkipped ==
  /\ gpc = "skipNotify"
  /\ \E n \in NotifyOutcomes : call' = [call EXCEPT !.notify = n]
  /\ result' = Failure("tier max")
  /\ gpc' = "done"
  /\ UNCHANGED <<NBA_TRADING_DISABLED, now, recentBuys, yes_price, buyOkAt>>
  /\ UNCHANGED otherVars

\* the POST to /portfolio/orders and its response
placeOrderSubmit ==
  /\ gpc = "submit"
  /\ \E outcome \in PostOutcomes, id \in OrderIds :
       LET ok == outcome = "ok"
       IN /\ call' = [call EXCEPT
                        !.posts = Min(call.posts + 1, 2),
                        !.received = IF outcome = "unsent" THEN call.received
                                     ELSE Min(call.received + 1, 2),
                        !.accepted = ok,
                        !.onResting = /\ call.action = "sell"
                                      /\ outcome # "unsent"
                                      /\ \E s \in Sides :
                                           <<call.ticker, s>> \in restingSells]
          /\ gpc' = AfterPost(outcome)
          /\ result' = IF ok THEN [result EXCEPT !.orderId = id]
                       ELSE IF outcome = "rejected" THEN Failure("rejected")
                       ELSE Failure("exception")
          /\ recentBuys' = IF TracksBuy(outcome, call.action)
                             THEN RecentBuysAfter(recentBuys, call.ticker, now)
                           ELSE recentBuys
          /\ buyOkAt' = IF ok /\ call.action = "buy"
                          THEN [buyOkAt EXCEPT ![call.ticker] = now]
                        ELSE buyOkAt
  /\ UNCHANGED <<NBA_TRADING_DISABLED, now, yes_price>>
  /\ UNCHANGED otherVars

\* sendTelegramNotification returned; it never throws
placeOrderNotified ==
  /\ gpc = "notify"
  /\ \E n \in NotifyOutcomes : call' = [call EXCEPT !.notify = n]
  /\ gpc' = "record"
  /\ UNCHANGED <<NBA_TRADING_DISABLED, now, recentBuys, yes_price, result, buyOkAt>>
  /\ UNCHANGED otherVars

\* the insert into trades returned
placeOrderRecorded ==
  /\ gpc = "record"
  /\ \E r \in InsertOutcomes :
       /\ call' = [call EXCEPT !.insert = r]
       /\ result' = ResultAfterRecord(r, result.orderId)
  /\ gpc' = "done"
  /\ UNCHANGED <<NBA_TRADING_DISABLED, now, recentBuys, yes_price, buyOkAt>>
  /\ UNCHANGED otherVars

(***************************************************************************)
(* The state of the engine around the guard: settings, exchange, main loop.*)
(***************************************************************************)
\* the settings rows the dashboard may save; the first holds the defaults
SettingsRows ==
  << [base_contract_count |-> 100, max_price_confirmed |-> 99,
      max_price_imminent |-> 92, max_price_serious |-> 80],
     [base_contract_count |-> 20, max_price_confirmed |-> 90,
      max_price_imminent |-> 85, max_price_serious |-> 70] >>

\* the open positions of the account: per ticker the YES and the NO count
Portfolios ==
  { [t \in Tickers |->
       IF t = "KXNBATRADE-A" THEN [position |-> 10, no_position |-> 10]
       ELSE [position |-> 0, no_position |-> 0]],
    [t \in Tickers |->
       IF t = "KXNBATRADE-A" THEN [position |-> 0, no_position |-> 10]
       ELSE [position |-> 10, no_position |-> 0]] }

NoSignal ==
  [ticker |-> "", tier |-> "", score |-> 0, base |-> 0, contracts |-> 0,
   tierMaxPrice |-> NULL, snapshot |-> SettingsRows[1]]

NoPass ==
  [positions |-> <<>>, restingOrders |-> {}, restingLegs |-> {},
   isFinalHours |-> FALSE, i |-> 0, skipped |-> {}, sold |-> <<>>]

\* after start-up: the defaults in memory (the row holds them too),
\* loadSettings(true) has read the row at time `fetched`, or has failed
\* (fetched = 0); nothing is pending and the main loop is about to begin
InitEngine(portfolios, fetched) ==
  /\ bot_settings = [settings |-> SettingsRows[1], updated_at |-> 0]
  /\ botSettings = SettingsRows[1]
  /\ BASE_CONTRACT_COUNT = SettingsRows[1].base_contract_count
  /\ settingsLastFetched \in fetched
  /\ pushPending = FALSE
  /\ market_positions \in portfolios
  /\ restingSells = {}
  /\ pendingSellOrders = {}
  /\ sellTimers = {}
  /\ epc = "idle"
  /\ sig = NoSignal
  /\ pass = NoPass
  /\ requested = <<>>

\* the volume and price-spike fields of botSettings, with their defaults
SpikeDefaults ==
  [min_volume_for_alert |-> 15000, min_volume_for_auto_buy |-> 25000,
   price_spike_threshold |-> 20, price_spike_max_entry |-> 85,
   price_spike_require_twitter |-> TRUE, price_spike_cooldown_minutes |-> 2,
   price_spike_position_limit |-> 50, price_spike_trading |-> FALSE]

NoMonitor ==
  [now |-> 0, i |-> 0, ticker |-> "", before |-> <<>>, oldest |-> NULL,
   currentPrice |-> NULL, candidate |-> FALSE, events |-> {}]

NoScan == [markets |-> <<>>, i |-> 0, opportunities |-> <<>>, k |-> 0]

NoNotification == [startup |-> FALSE, attempt |-> 0, responses |-> <<>>, delays |-> <<>>]

\* the deadline scan before its first pass; no notification is under way
InitDeadline ==
  /\ deadlineNoBuysExecuted = {}
  /\ dpc = "idle"
  /\ scan = NoScan
  /\ npc = "idle"
  /\ tg = NoNotification

\* the price monitor before its first pass
InitMonitor(settings, volumes, predictions) ==
  /\ priceHistory = [t \in Tickers |-> <<>>]
  /\ volume \in [Tickers -> volumes]
  /\ source_predictions \in [Tickers -> predictions]
  /\ spikeSettings \in settings
  /\ spc = "idle"
  /\ mon = NoMonitor

\* the bots that share the tweets table
Scripts == {"nba-trade-bot-v2", "superbowl-ad-bot"}
\* the source posts at most MaxTweets tweets, with the ids 1 .. MaxTweets
MaxTweets == 2
\* the process is restarted at most MaxRestarts times
MaxRestarts == 1

\* known: the id was stored in the tweets table when processTweet began
NoRun ==
  [batch |-> <<>>, i |-> 0, stage |-> "", signals |-> 0, k |-> 0,
   known |-> FALSE, market |-> FALSE]

\* a fresh process: empty since_id and processed set, the timers at 0,
\* about to enter the loop
FreshProcess ==
  [lastTweetIds |-> 0, processedTweets |-> {}, lastProfitTakeCheck |-> 0,
   lastTwitterStatusLog |-> 0, rpc |-> "tick", run |-> NoRun]

\* the first start of the bot: no tweet exists, the tables are empty
InitRunBot(scripts) ==
  /\ script \in scripts
  /\ posted = 0
  /\ lastTweetIds = FreshProcess.lastTweetIds
  /\ processedTweets = FreshProcess.processedTweets
  /\ tweets = {}
  /\ bot_status = [lastTweetIds |-> 0]
  /\ lastProfitTakeCheck = FreshProcess.lastProfitTakeCheck
  /\ lastTwitterStatusLog = FreshProcess.lastTwitterStatusLog
  /\ rpc = FreshProcess.rpc
  /\ run = FreshProcess.run
  /\ journal = <<>>
  /\ thrown = ""
  /\ acted = [id \in 1 .. MaxTweets |-> 0]
  /\ replayed = {}
  /\ restarts = 0

\* the engine at rest, for the runs of the guard and of the functions alone
InitIdle ==
  /\ InitEngine({CHOOSE p \in Portfolios : p["KXNBATRADE-B"].position = 0},
                {ClockStep})
  /\ InitRunBot({"nba-trade-bot-v2"})
  /\ InitMonitor({SpikeDefaults}, {0}, {FALSE})
  /\ InitDeadline

(***************************************************************************)
(* The guard on its own: any caller, any request.                          *)
(***************************************************************************)
Caller ==
  /\ gpc = "idle"
  /\ \E ticker \in Tickers, side \in Sides, action \in Actions,
        count \in Counts, tm \in TierMax :
       placeOrderEntry(ticker, side, action, count, tm[2], tm[1])
  /\ UNCHANGED <<NBA_TRADING_DISABLED, now, recentBuys, yes_price, buyOkAt>>
  /\ UNCHANGED otherVars

Return ==
  /\ gpc = "done"
  /\ gpc' = "idle"
  /\ call' = NoCall
  /\ result' = NoResult
  /\ UNCHANGED <<NBA_TRADING_DISABLED, now, recentBuys, yes_price, buyOkAt>>
  /\ UNCHANGED otherVars

\* refreshMarketCache stores last_price / 100 for a market
refreshMarketCache ==
  /\ gpc = "idle"
  /\ epc = "idle"
  /\ \E t \in Tickers, lp \in LastPrices :
       yes_price' = [yes_price EXCEPT ![t] = CacheFraction(lp)]
  /\ UNCHANGED <<NBA_TRADING_DISABLED, now, recentBuys, gpc, call, result, buyOkAt>>
  /\ UNCHANGED otherVars

Tick ==
  /\ now + ClockStep <= MaxNow
  /\ now' = now + ClockStep
  /\ UNCHANGED <<NBA_TRADING_DISABLED, recentBuys, yes_price, gpc, call, result, buyOkAt>>
  /\ UNCHANGED otherVars

InitGuard ==
  /\ NBA_TRADING_DISABLED \in BOOLEAN
  /\ now = ClockStep
  /\ recentBuys = [t \in Tickers |-> 0]
  /\ yes_price = [t \in Tickers |-> NULL]
  /\ gpc = "idle"
  /\ call = NoCall
  /\ result = NoResult
  /\ buyOkAt = [t \in Tickers |-> 0]

Init ==
  /\ InitGuard
  /\ InitIdle
  /\ inp = NoInput
  /\ out = NoOutput

Next ==
  \/ Caller
  \/ placeOrderPrice
  \/ placeOrderSkipped
  \/ placeOrderSubmit
  \/ placeOrderNotified
  \/ placeOrderRecorded
  \/ Return
  \/ refreshMarketCache
  \/ Tick

Spec == Init /\ [][Next]_vars

(***************************************************************************)
(* Prices and positions: the pure computations.                            *)
(***************************************************************************)
\* checkProfitTaking: currentSidePrice = isYesPosition ? yesPrice : 1 - yesPrice,
\* currentPriceCents = Math.round(currentSidePrice * 100)
CurrentPriceCents(yp, side) ==
  Round100(IF side = "yes" THEN yp ELSE 1000 - yp)

\* (fillsData.fills || []).filter(f => f.action === "buy" && f.side === pos.side)
BuyFills(fills, side) ==
  SelectSeq(fills, LAMBDA f : f.action = "buy" /\ f.side = side)

\* actualPrice = pos.side === "no" ? 100 - yp : yp
ActualPrice(fill, side) ==
  IF side = "no" THEN 100 - fill.yes_price ELSE fill.yes_price

RECURSIVE TotalCost(_, _)
\* totalCost += actualPrice * fill.count
TotalCost(buyFills, side) ==
  IF buyFills = <<>> THEN 0
  ELSE ActualPrice(Head(buyFills), side) * Head(buyFills).count
       + TotalCost(Tail(buyFills), side)

RECURSIVE TotalContracts(_)
\* totalContracts += fill.count
TotalContracts(buyFills) ==
  IF buyFills = <<>> THEN 0
  ELSE Head(buyFills).count + TotalContracts(Tail(buyFills))

\* executeSignal: yesPrice = tradeMarket?.yes_price ? Math.round(yes_price * 100) : 50
SignalYesPrice(yp) == IF yp # NULL /\ yp # 0 THEN Round100(yp) ELSE 50

\* currentPrice = confidence.action === "buy_yes" ? yesPrice : 100 - yesPrice
SignalCurrentPrice(yp, action) ==
  IF action = "buy_yes" THEN SignalYesPrice(yp) ELSE 100 - SignalYesPrice(yp)

RECURSIVE getAllPositions(_)
\* the bot's position fetch: one leg per positive field of each record
getAllPositions(records) ==
  IF records = <<>> THEN <<>>
  ELSE LET p == Head(records)
           yesLeg == IF p.position > 0
                       THEN <<[ticker |-> p.ticker, contracts |-> p.position,
                               side |-> "yes"]>>
                     ELSE <<>>
           noLeg == IF p.no_position > 0
                      THEN <<[ticker |-> p.ticker, contracts |-> p.no_position,
                              side |-> "no"]>>
                    ELSE <<>>
       IN yesLeg \o noLeg \o getAllPositions(Tail(records))

RECURSIVE PositionsRoute(_)
\* the dashboard's positions route: records with position !== 0, one leg each,
\* contracts = Math.abs(p.position), side = p.position > 0 ? "yes" : "no"
PositionsRoute(records) ==
  IF records = <<>> THEN <<>>
  ELSE LET p == Head(records)
           leg == IF p.position # 0
                    THEN <<[ticker |-> p.ticker, contracts |-> Abs(p.position),
                            side |-> IF p.position > 0 THEN "yes" ELSE "no"]>>
                  ELSE <<>>
       IN leg \o PositionsRoute(Tail(records))

\* the inputs the functions are tried on
Cents == 0 .. 100
FillLists ==
  { <<>>,
    <<[action |-> "buy", side |-> "no", yes_price |-> 62, count |-> 50]>>,
    <<[action |-> "buy", side |-> "no", yes_price |-> 25, count |-> 10],
      [action |-> "buy", side |-> "yes", yes_price |-> 30, count |-> 4],
      [action |-> "sell", side |-> "no", yes_price |-> 20, count |-> 3],
      [action |-> "buy", side |-> "no", yes_price |-> 40, count |-> 5]>>,
    <<[action |-> "buy", side |-> "yes", yes_price |-> 70, count |-> 7],
      [action |-> "buy", side |-> "no", yes_price |-> 99, count |-> 1]>> }
PureInputs ==
  {[NoInput EXCEPT !.kind = "price", !.last_price = c] : c \in Cents}
  \cup {[NoInput EXCEPT !.kind = "fills", !.fills = f] : f \in FillLists}
  \cup {[NoInput EXCEPT !.kind = "positions", !.position = a, !.no_position = b] :
          a \in 0 .. MaxContracts, b \in 0 .. MaxContracts}

InputPositions ==
  <<[ticker |-> "KXNBATRADE-A", position |-> inp.position,
     no_position |-> inp.no_position]>>

ApplyLastPrice ==
  /\ inp.kind = "price"
  /\ \E side \in Sides :
       out' = [NoOutput EXCEPT !.fn = "LastPrice", !.side = side,
                 !.value = LastPrice(CacheFraction(inp.last_price), side)]
  /\ UNCHANGED <<guardVars, inp, engineVars>>

ApplyCurrentPriceCents ==
  /\ inp.kind = "price"
  /\ \E side \in Sides :
       out' = [NoOutput EXCEPT !.fn = "CurrentPriceCents", !.side = side,
                 !.value = CurrentPriceCents(CacheFraction(inp.last_price), side)]
  /\ UNCHANGED <<guardVars, inp, engineVars>>

ApplySignalCurrentPrice ==
  /\ inp.kind = "price"
  /\ \E side \in Sides :
       out' = [NoOutput EXCEPT !.fn = "SignalCurrentPrice", !.side = side,
                 !.value = SignalCurrentPrice(CacheFraction(inp.last_price),
                                              IF side = "yes" THEN "buy_yes"
                                              ELSE "buy_no")]
  /\ UNCHANGED <<guardVars, inp, engineVars>>

ApplyTotalCost ==
  /\ inp.kind = "fills"
  /\ \E side \in Sides :
       out' = [NoOutput EXCEPT !.fn = "TotalCost", !.side = side,
                 !.value = TotalCost(BuyFills(inp.fills, side), side),
                 !.n = TotalContracts(BuyFills(inp.fills, side))]
  /\ UNCHANGED <<guardVars, inp, engineVars>>

ApplyGetAllPositions ==
  /\ inp.kind = "positions"
  /\ out' = [NoOutput EXCEPT !.fn = "getAllPositions",
               !.legs = getAllPositions(InputPositions)]
  /\ UNCHANGED <<guardVars, inp, engineVars>>

ApplyPositionsRoute ==
  /\ inp.kind = "positions"
  /\ out' = [NoOutput EXCEPT !.fn = "PositionsRoute",
               !.legs = PositionsRoute(InputPositions)]
  /\ UNCHANGED <<guardVars, inp, engineVars>>

InitPure ==
  /\ InitGuard
  /\ InitIdle
  /\ inp \in PureInputs
  /\ out = NoOutput

NextPure ==
  \/ ApplyLastPrice
  \/ ApplyCurrentPriceCents
  \/ ApplySignalCurrentPrice
  \/ ApplyTotalCost
  \/ ApplyGetAllPositions
  \/ ApplyPositionsRoute

SpecPure == InitPure /\ [][NextPure]_vars

(***************************************************************************)
(* Signal extraction: the LLM path and the keyword path.                   *)
(***************************************************************************)
\* ConfidenceTier.level
TierLevel(tier) ==
  CASE tier = "Confirmed" -> 1
    [] tier = "Imminent" -> 2
    [] tier = "Serious" -> 3
    [] tier = "Exploring" -> 4
    [] tier = "Negative" -> 5

\* the positive tiers tested before the negative keywords
classifyConfidencePositiveFirstMut(keywords) ==
  IF "CONFIRMED" \in keywords THEN "Confirmed"
  ELSE IF "IMMINENT" \in keywords THEN "Imminent"
  ELSE IF "SERIOUS" \in keywords THEN "Serious"
  ELSE IF "NEGATIVE" \in keywords THEN "Negative"
  ELSE "Exploring"

\* classifyConfidence: negative keywords first, then from the highest tier
\* down; no keyword at all is Exploring
classifyConfidence(keywords) ==
  IF "NEGATIVE" \in keywords THEN "Negative"
  ELSE IF "CONFIRMED" \in keywords THEN "Confirmed"
  ELSE IF "IMMINENT" \in keywords THEN "Imminent"
  ELSE IF "SERIOUS" \in keywords THEN "Serious"
  ELSE "Exploring"

\* tierMap[player.confidence] ?? CONFIDENCE_TIERS.EXPLORING
tierMap(confidence) ==
  CASE confidence = "confirmed" -> "Confirmed"
    [] confidence = "imminent" -> "Imminent"
    [] confidence = "serious" -> "Serious"
    [] confidence = "exploring" -> "Exploring"
    [] confidence = "negative" -> "Negative"
    [] OTHER -> "Exploring"

\* tierScores[playerConfidence.name] ?? 50
tierScores(tier) ==
  CASE tier = "Confirmed" -> 95
    [] tier = "Imminent" -> 80
    [] tier = "Serious" -> 60
    [] tier = "Exploring" -> 30
    [] tier = "Negative" -> 70
    [] OTHER -> 50

SkipExploringNeverMut(level) == FALSE
\* if (confidence.level === 4): no signal for the Exploring tier
SkipExploring(level) == level = 4

Signal(player, team, tier, score) ==
  [player |-> player, team |-> team, tier |-> tier, score |-> score]

RECURSIVE LLMSignals(_)
\* the loop over llmAnalysis.players
LLMSignals(players) ==
  IF players = <<>> THEN <<>>
  ELSE LET player == Head(players)
           confidence == tierMap(player.confidence)
           signal ==
             IF SkipExploring(TierLevel(confidence)) THEN <<>>
             ELSE IF player.is_being_traded \/ player.confidence = "negative"
               THEN <<Signal(player.name, player.destination_team, confidence,
                             player.confidence_score)>>
             ELSE <<>>
       IN signal \o LLMSignals(Tail(players))

RECURSIVE UniquePlayers(_, _)
\* players deduplicated, the first mention kept
UniquePlayers(players, seen) ==
  IF players = <<>> THEN <<>>
  ELSE IF Head(players) \in seen THEN UniquePlayers(Tail(players), seen)
  ELSE <<Head(players)>> \o UniquePlayers(Tail(players), seen \cup {Head(players)})

RECURSIVE KeywordSignals(_, _, _)
\* the loop over uniquePlayers: a player in a negative context is Negative,
\* a player who is not the actual trade target is left out
KeywordSignals(uniquePlayers, confidence, text) ==
  IF uniquePlayers = <<>> THEN <<>>
  ELSE LET player == Head(uniquePlayers)
           isNegative == player \in text.negative
           skipped == /\ ~isNegative
                      /\ text.actualTarget # ""
                      /\ text.actualTarget # player
           playerConfidence == IF isNegative THEN "Negative" ELSE confidence
           signal == IF skipped THEN <<>>
                     ELSE <<Signal(player, text.team, playerConfidence,
                                   tierScores(playerConfidence))>>
       IN signal \o KeywordSignals(Tail(uniquePlayers), confidence, text)

extractSignalsKeyword(text) ==
  LET confidence == classifyConfidence(text.keywords)
  IN IF SkipExploring(TierLevel(confidence)) THEN <<>>
     ELSE KeywordSignals(UniquePlayers(text.players, {}), confidence, text)

\* the LLM analysis when it names players, else the keyword path
extractSignalsWithLLM(llmAnalysis, text) ==
  IF llmAnalysis.ok /\ Len(llmAnalysis.players) > 0
    THEN LLMSignals(llmAnalysis.players)
    ELSE extractSignalsKeyword(text)

(***************************************************************************)
(* The resolver: findTradeMarket and findNextTeamMarket.  A name is a      *)
(* sequence of characters.                                                 *)
(***************************************************************************)
UpperCase ==
  <<"A", "B", "C", "D", "E", "F", "G", "H", "I", "J", "K", "L", "M",
    "N", "O", "P", "Q", "R", "S", "T", "U", "V", "W", "X", "Y", "Z">>
LowerCase ==
  <<"a", "b", "c", "d", "e", "f", "g", "h", "i", "j", "k", "l", "m",
    "n", "o", "p", "q", "r", "s", "t", "u", "v", "w", "x", "y", "z">>

toLowerCase(s) ==
  [i \in DOMAIN s |->
     IF \E k \in DOMAIN UpperCase : UpperCase[k] = s[i]
       THEN LowerCase[CHOOSE k \in DOMAIN UpperCase : UpperCase[k] = s[i]]
       ELSE s[i]]

\* .replace(/\./g, "")
RemoveDots(s) == SelectSeq(s, LAMBDA c : c # ".")

RECURSIVE CollapseSpaces(_)
\* .replace(/\s+/g, " ")
CollapseSpaces(s) ==
  IF s = <<>> THEN <<>>
  ELSE IF Head(s) = " "
    THEN (IF Len(s) > 1 /\ s[2] = " " THEN CollapseSpaces(Tail(s))
          ELSE <<" ">> \o CollapseSpaces(Tail(s)))
  ELSE <<Head(s)>> \o CollapseSpaces(Tail(s))

RECURSIVE TrimStart(_)
TrimStart(s) ==
  IF s # <<>> /\ Head(s) = " " THEN TrimStart(Tail(s)) ELSE s

RECURSIVE TrimEnd(_)
TrimEnd(s) ==
  IF s # <<>> /\ s[Len(s)] = " " THEN TrimEnd(SubSeq(s, 1, Len(s) - 1)) ELSE s

\* .trim()
Trim(s) == TrimEnd(TrimStart(s))

normalizeName(name) == Trim(CollapseSpaces(RemoveDots(toLowerCase(name))))

RECURSIVE Split(_, _)
\* s.split(" "), cur being the word read so far: empty words are kept
Split(s, cur) ==
  IF s = <<>> THEN <<cur>>
  ELSE IF Head(s) = " " THEN <<cur>> \o Split(Tail(s), <<>>)
  ELSE Split(Tail(s), Append(cur, Head(s)))

\* words[words.length - 1]
LastWord(s) == LET words == Split(s, <<>>) IN words[Len(words)]
\* words[0]
FirstWord(s) == Split(s, <<>>)[1]

\* s.includes(sub)
Includes(s, sub) ==
  \E i \in 1 .. Len(s) + 1 :
    i + Len(sub) - 1 <= Len(s) /\ SubSeq(s, i, i + Len(sub) - 1) = sub

\* the smallest index of markets that satisfies Match, 0 (null) when none
FirstIndex(markets, Match(_)) ==
  IF \E i \in DOMAIN markets : Match(markets[i])
    THEN CHOOSE i \in DOMAIN markets :
           /\ Match(markets[i])
           /\ \A j \in 1 .. i - 1 : ~Match(markets[j])
    ELSE 0

FirstNamesAgreeOnInitialMut(marketFirst, searchFirst) ==
  marketFirst # <<>> /\ searchFirst # <<>> /\ marketFirst[1] = searchFirst[1]
\* marketFirst === searchFirst
FirstNamesAgree(marketFirst, searchFirst) == marketFirst = searchFirst

\* the partial match of findTradeMarket
PartialMatch(marketName, searchName) ==
  LET marketLast == LastWord(marketName)
      searchLast == LastWord(searchName)
  IN /\ Len(marketLast) >= 4
     /\ marketLast = searchLast
     /\ FirstNamesAgree(FirstWord(marketName), FirstWord(searchName))

\* the index in tradeMarkets of the market returned, 0 for null
findTradeMarket(tradeMarkets, playerName) ==
  LET searchName == normalizeName(playerName)
      exact == FirstIndex(tradeMarkets,
                 LAMBDA m : normalizeName(m.player_name) = searchName)
  IN IF exact # 0 THEN exact
     ELSE FirstIndex(tradeMarkets,
            LAMBDA m : PartialMatch(normalizeName(m.player_name), searchName))

\* the first entries of the alias table, in the order of the table
TEAM_CODES ==
  << <<<<"h", "a", "w", "k", "s">>, "ATL">>,
     <<<<"a", "t", "l", "a", "n", "t", "a">>, "ATL">>,
     <<<<"c", "e", "l", "t", "i", "c", "s">>, "BOS">>,
     <<<<"b", "o", "s", "t", "o", "n">>, "BOS">>,
     <<<<"n", "e", "t", "s">>, "BKN">>,
     <<<<"b", "r", "o", "o", "k", "l", "y", "n">>, "BKN">>,
     <<<<"h", "o", "r", "n", "e", "t", "s">>, "CHA">>,
     <<<<"c", "h", "a", "r", "l", "o", "t", "t", "e">>, "CHA">> >>

\* TEAM_CODES[searchTeam], else the code of the first key searchTeam
\* includes; "" when there is none
TeamCode(searchTeam) ==
  LET exact == FirstIndex(TEAM_CODES, LAMBDA e : e[1] = searchTeam)
      partial == FirstIndex(TEAM_CODES, LAMBDA e : Includes(searchTeam, e[1]))
  IN IF exact # 0 THEN TEAM_CODES[exact][2]
     ELSE IF partial # 0 THEN TEAM_CODES[partial][2]
     ELSE ""

\* the index in nextTeamMarkets of the market returned, 0 for null
findNextTeamMarket(nextTeamMarkets, playerName, teamName) ==
  LET searchPlayer == toLowerCase(playerName)
      teamCode == TeamCode(toLowerCase(teamName))
  IN IF teamCode = "" THEN 0
     ELSE FirstIndex(nextTeamMarkets,
            LAMBDA m :
              LET marketPlayer == toLowerCase(m.player_name)
              IN /\ \/ marketPlayer = searchPlayer
                    \/ LastWord(marketPlayer) = LastWord(searchPlayer)
                 /\ m.team_code = teamCode)

\* the names tried
JohnSmith == <<"J", "o", "h", "n", " ", "S", "m", "i", "t", "h">>
JonSmith == <<"J", "o", "n", " ", "S", "m", "i", "t", "h">>
JDotSmith == <<"J", ".", " ", "S", "m", "i", "t", "h">>
Smith == <<"S", "m", "i", "t", "h">>
JohnASmith == <<"J", "o", "h", "n", " ", "A", " ", "S", "m", "i", "t", "h">>
JohnBSmith ==
  <<"J", "o", "h", "n", " ", "B", ".", " ", "S", "m", "i", "t", "h">>
JohnSmithSpaced ==
  <<" ", "j", "o", "h", "n", " ", " ", "S", "M", "I", "T", "H", " ">>
JohnSmi == <<"J", "o", "h", "n", " ", "S", "m", "i">>
BoLi == <<"B", "o", " ", "L", "i">>
BoXLi == <<"B", "o", " ", "X", " ", "L", "i">>
LameloBall == <<"L", "a", "M", "e", "l", "o", " ", "B", "a", "l", "l">>
LonzoBall == <<"L", "o", "n", "z", "o", " ", "B", "a", "l", "l">>
Hornets == <<"H", "o", "r", "n", "e", "t", "s">>
CharlotteHornets ==
  <<"C", "h", "a", "r", "l", "o", "t", "t", "e", " ", "H", "o", "r", "n",
    "e", "t", "s">>
Nets == <<"N", "e", "t", "s">>
Mars == <<"M", "a", "r", "s">>

(***************************************************************************)
(* Extraction and resolution applied to the texts, analyses and names      *)
(* tried.                                                                  *)
(***************************************************************************)
KeywordClasses == {"NEGATIVE", "CONFIRMED", "IMMINENT", "SERIOUS", "EXPLORING"}
Players == {"james harden", "darius garland"}
PlayerLists ==
  {<<>>} \cup {<<a>> : a \in Players} \cup {<<a, b>> : a \in Players, b \in Players}

Texts ==
  [keywords : SUBSET KeywordClasses, players : PlayerLists,
   negative : SUBSET Players, actualTarget : {"", "james harden", "ja morant"},
   team : {""}]

LLMConfidences ==
  {"confirmed", "imminent", "serious", "exploring", "negative", "rumor"}
LLMPlayers ==
  [name : Players, confidence : LLMConfidences, is_being_traded : BOOLEAN,
   destination_team : {""}, confidence_score : {70}]
Analyses ==
  {NoAnalysis, [ok |-> TRUE, players |-> <<>>]}
  \cup {[ok |-> TRUE, players |-> <<a>>] : a \in LLMPlayers}
  \cup {[ok |-> TRUE, players |-> <<a, b>>] : a \in LLMPlayers, b \in LLMPlayers}

\* the text behind an analysis: the keyword path is taken when the
\* analysis is null
FallbackTexts ==
  {[NoText EXCEPT !.keywords = {"CONFIRMED"}, !.players = <<"james harden">>],
   [NoText EXCEPT !.keywords = {"EXPLORING"}, !.players = <<"james harden">>]}

TradeMarketLists ==
  << <<[player_name |-> JohnSmith], [player_name |-> JonSmith]>>,
     <<[player_name |-> JohnASmith], [player_name |-> JohnBSmith]>>,
     <<[player_name |-> BoXLi], [player_name |-> LameloBall]>> >>
PlayerQueries ==
  {JohnSmith, JonSmith, JDotSmith, Smith, JohnSmithSpaced, JohnSmi, BoLi,
   LameloBall, LonzoBall}

NextTeamMarketLists ==
  << <<[player_name |-> LameloBall, team_code |-> "BKN"],
       [player_name |-> LameloBall, team_code |-> "CHA"],
       [player_name |-> JohnSmith, team_code |-> "ATL"]>> >>
TeamQueries == {Hornets, CharlotteHornets, Nets, Mars}

TextInputs ==
  {[NoInput EXCEPT !.kind = "text", !.text = t] : t \in Texts}
  \cup {[NoInput EXCEPT !.kind = "llm", !.llm = a, !.text = t] :
          a \in Analyses, t \in FallbackTexts}
  \cup {[NoInput EXCEPT !.kind = "player", !.markets = k, !.query = q] :
          k \in DOMAIN TradeMarketLists, q \in PlayerQueries}
  \cup {[NoInput EXCEPT !.kind = "team", !.markets = k, !.query = q, !.team = t] :
          k \in DOMAIN NextTeamMarketLists,
          q \in {LameloBall, LonzoBall, JohnSmith}, t \in TeamQueries}

ApplyExtractSignalsKeyword ==
  /\ inp.kind = "text"
  /\ out' = [NoOutput EXCEPT !.fn = "extractSignalsKeyword",
               !.signals = extractSignalsKeyword(inp.text)]
  /\ UNCHANGED <<guardVars, inp, engineVars>>

ApplyClassifyConfidence ==
  /\ inp.kind = "text"
  /\ out' = [NoOutput EXCEPT !.fn = "classifyConfidence",
               !.confidence = classifyConfidence(inp.text.keywords)]
  /\ UNCHANGED <<guardVars, inp, engineVars>>

ApplyExtractSignalsWithLLM ==
  /\ inp.kind = "llm"
  /\ out' = [NoOutput EXCEPT !.fn = "extractSignalsWithLLM",
               !.signals = extractSignalsWithLLM(inp.llm, inp.text)]
  /\ UNCHANGED <<guardVars, inp, engineVars>>

ApplyFindTradeMarket ==
  /\ inp.kind = "player"
  /\ out' = [NoOutput EXCEPT !.fn = "findTradeMarket",
               !.market = findTradeMarket(TradeMarketLists[inp.markets],
                                          inp.query)]
  /\ UNCHANGED <<guardVars, inp, engineVars>>

ApplyFindNextTeamMarket ==
  /\ inp.kind = "team"
  /\ out' = [NoOutput EXCEPT !.fn = "findNextTeamMarket",
               !.market = findNextTeamMarket(NextTeamMarketLists[inp.markets],
                                             inp.query, inp.team)]
  /\ UNCHANGED <<guardVars, inp, engineVars>>

InitText ==
  /\ InitGuard
  /\ InitIdle
  /\ inp \in TextInputs
  /\ out = NoOutput

NextText ==
  \/ ApplyClassifyConfidence
  \/ ApplyExtractSignalsKeyword
  \/ ApplyExtractSignalsWithLLM
  \/ ApplyFindTradeMarket
  \/ ApplyFindNextTeamMarket

SpecText == InitText /\ [][NextText]_vars

(***************************************************************************)
(* Settings: loadSettings, the realtime subscription, the dashboard.       *)
(***************************************************************************)
SETTINGS_REFRESH_MS == 60000
\* the dashboard saves the settings at most MaxVersion times
MaxVersion == 1

\* what a caller of placeOrder leaves alone
guardData == <<NBA_TRADING_DISABLED, now, recentBuys, yes_price, buyOkAt>>

\* { ...botSettings, ...data.settings }
Merge(a, b) ==
  [k \in DOMAIN a \cup DOMAIN b |-> IF k \in DOMAIN b THEN b[k] ELSE a[k]]

getConfidenceTierMaxPrice(settings, tier) ==
  CASE tier = "Confirmed" -> settings.max_price_confirmed
    [] tier = "Imminent" -> settings.max_price_imminent
    [] tier = "Serious" -> settings.max_price_serious
    [] OTHER -> 50

\* the select returned (ok) or failed: on failure everything stays
loadSettingsBody(ok) ==
  /\ botSettings' = IF ok THEN Merge(botSettings, bot_settings.settings)
                    ELSE botSettings
  /\ BASE_CONTRACT_COUNT' = IF ok THEN botSettings'.base_contract_count
                            ELSE BASE_CONTRACT_COUNT
  /\ settingsLastFetched' = IF ok THEN now ELSE settingsLastFetched

\* the main loop's loadSettings(): skipped while the cache is fresh
loadSettings ==
  /\ epc = "idle"
  /\ gpc = "idle"
  /\ now - settingsLastFetched >= SETTINGS_REFRESH_MS
  /\ \E ok \in BOOLEAN : loadSettingsBody(ok)
  /\ UNCHANGED <<bot_settings, pushPending>>
  /\ UNCHANGED <<guardVars, pureVars, spikeVars, deadlineVars, notifyVars, runBotVars, exchangeVars, loopVars>>

\* the realtime callback, loadSettings(true): it runs at any await of the
\* main loop
subscribeToSettingsChanges ==
  /\ pushPending
  /\ \E ok \in BOOLEAN : loadSettingsBody(ok)
  /\ pushPending' = FALSE
  /\ UNCHANGED bot_settings
  /\ UNCHANGED <<guardVars, pureVars, spikeVars, deadlineVars, notifyVars, runBotVars, exchangeVars, loopVars>>

\* the dashboard upserts the row; the UPDATE is pushed to the bot
saveSettings ==
  /\ bot_settings.updated_at < MaxVersion
  /\ \E i \in 1 .. Len(SettingsRows) :
       /\ SettingsRows[i] # bot_settings.settings
       /\ bot_settings' = [settings |-> SettingsRows[i],
                           updated_at |-> bot_settings.updated_at + 1]
  /\ pushPending' = TRUE
  /\ UNCHANGED <<botSettings, BASE_CONTRACT_COUNT, settingsLastFetched>>
  /\ UNCHANGED <<guardVars, pureVars, spikeVars, deadlineVars, notifyVars, runBotVars, exchangeVars, loopVars>>

(***************************************************************************)
(* executeSignal: sizing, then the orders.  A signal carries no            *)
(* destination team here, so the next-team market is not traded.           *)
(***************************************************************************)
SignalTiers == {"Confirmed", "Negative", "Exploring"}
Scores == {70}
\* source reliability multipliers, in hundredths
Multipliers == {100}

\* confidence.positionPct, in quarters
PositionPct(tier) ==
  CASE tier = "Confirmed" -> 4
    [] tier = "Imminent" -> 2
    [] tier = "Serious" -> 1
    [] tier = "Negative" -> 2
    [] OTHER -> 0

TierAction(tier) ==
  CASE tier = "Negative" -> "buy_no"
    [] tier = "Exploring" -> "hold"
    [] OTHER -> "buy_yes"

\* the fraction is always the cap of twice the base fraction
calculateDynamicPositionSizeCapMut(basePct, confidenceScore, currentPrice, sourceMultiplier) ==
  basePct * 1000000

\* the position fraction, in units of 1/2000000: basePct in quarters, the
\* odds multiplier in fiftieths, the confidence and source multipliers in
\* hundredths; capped at twice the base fraction
calculateDynamicPositionSize(basePct, confidenceScore, currentPrice, sourceMultiplier) ==
  LET oddsMultiplier == IF currentPrice > 0 THEN Min(100, 100 - currentPrice)
                        ELSE 50
      confidenceMultiplier == 50 + confidenceScore
      finalPct == basePct * oddsMultiplier * confidenceMultiplier * sourceMultiplier
  IN Min(finalPct, basePct * 1000000)

\* Math.round(BASE_CONTRACT_COUNT * dynamicPct)
Contracts(base, dynamicPct) == (base * dynamicPct + 1000000) \div 2000000

BuySide(tier) == IF TierAction(tier) = "buy_yes" THEN "yes" ELSE "no"
OppositeSide(tier) == IF TierAction(tier) = "buy_yes" THEN "no" ELSE "yes"

\* getExistingNoPosition / getExistingPosition: the contracts of the leg, 0
\* for null
ExistingPosition(ticker, side, ok) ==
  IF ~ok THEN 0
  ELSE IF side = "yes" THEN Max(market_positions[ticker].position, 0)
  ELSE Max(market_positions[ticker].no_position, 0)

Request(ticker, side, action, count) ==
  [ticker |-> ticker, side |-> side, action |-> action, count |-> count]

GuardReset ==
  /\ gpc' = "idle"
  /\ call' = NoCall
  /\ result' = NoResult

\* a signal arrives; getSourceReliability is awaited
executeSignal ==
  /\ epc = "idle"
  /\ gpc = "idle"
  /\ \E ticker \in Tickers, tier \in SignalTiers, score \in Scores :
       sig' = [NoSignal EXCEPT !.ticker = ticker, !.tier = tier,
                 !.score = score, !.snapshot = botSettings]
  /\ requested' = <<>>
  /\ epc' = "reliability"
  /\ UNCHANGED <<guardVars, pureVars, spikeVars, deadlineVars, notifyVars, runBotVars, settingsVars, exchangeVars>>
  /\ UNCHANGED <<pendingSellOrders, sellTimers, pass>>

\* the position is sized from BASE_CONTRACT_COUNT; trackPrediction is awaited
executeSignalSize ==
  /\ epc = "reliability"
  /\ \E sourceMultiplier \in Multipliers :
       LET currentPrice == SignalCurrentPrice(yes_price[sig.ticker],
                                              TierAction(sig.tier))
           dynamicPct == calculateDynamicPositionSize(
                           PositionPct(sig.tier), sig.score, currentPrice,
                           sourceMultiplier)
           contracts == Contracts(BASE_CONTRACT_COUNT, dynamicPct)
       IN IF contracts = 0
            THEN sig' = NoSignal /\ epc' = "idle"
            ELSE /\ sig' = [sig EXCEPT !.base = BASE_CONTRACT_COUNT,
                              !.contracts = contracts]
                 /\ epc' = "track"
  /\ UNCHANGED <<guardVars, pureVars, spikeVars, deadlineVars, notifyVars, runBotVars, settingsVars, exchangeVars>>
  /\ UNCHANGED <<pendingSellOrders, sellTimers, pass, requested>>

\* the tier's max price is read; the opposite leg is looked up
executeSignalTier ==
  /\ epc = "track"
  /\ sig' = [sig EXCEPT
               !.tierMaxPrice = getConfidenceTierMaxPrice(botSettings, sig.tier)]
  /\ epc' = "position"
  /\ UNCHANGED <<guardVars, pureVars, spikeVars, deadlineVars, notifyVars, runBotVars, settingsVars, exchangeVars>>
  /\ UNCHANGED <<pendingSellOrders, sellTimers, pass, requested>>

\* an opposite leg is sold first (limit 5c), else the buy goes out
executeSignalOpposite ==
  /\ epc = "position"
  /\ \E ok \in BOOLEAN :
       LET existing == ExistingPosition(sig.ticker, OppositeSide(sig.tier), ok)
       IN IF existing > 0
            THEN /\ placeOrderEntry(sig.ticker, OppositeSide(sig.tier), "sell",
                                    existing, 5, sig.tier)
                 /\ requested' = Append(requested,
                      Request(sig.ticker, OppositeSide(sig.tier), "sell", existing))
                 /\ epc' = "selling"
            ELSE /\ placeOrderEntry(sig.ticker, BuySide(sig.tier), "buy",
                                    sig.contracts, sig.tierMaxPrice, sig.tier)
                 /\ requested' = Append(requested,
                      Request(sig.ticker, BuySide(sig.tier), "buy", sig.contracts))
                 /\ epc' = "buying"
  /\ UNCHANGED <<guardData, pureVars, spikeVars, deadlineVars, notifyVars, runBotVars, settingsVars, exchangeVars>>
  /\ UNCHANGED <<pendingSellOrders, sellTimers, sig, pass>>

\* the sell returned (its result is not looked at): the buy goes out
executeSignalBuy ==
  /\ epc = "selling"
  /\ gpc = "done"
  /\ placeOrderEntry(sig.ticker, BuySide(sig.tier), "buy", sig.contracts,
                     sig.tierMaxPrice, sig.tier)
  /\ requested' = Append(requested,
       Request(sig.ticker, BuySide(sig.tier), "buy", sig.contracts))
  /\ epc' = "buying"
  /\ UNCHANGED <<guardData, pureVars, spikeVars, deadlineVars, notifyVars, runBotVars, settingsVars, exchangeVars>>
  /\ UNCHANGED <<pendingSellOrders, sellTimers, sig, pass>>

\* the buy returned: the signal is done
executeSignalDone ==
  /\ epc = "buying"
  /\ gpc = "done"
  /\ GuardReset
  /\ sig' = NoSignal
  /\ requested' = <<>>
  /\ epc' = "idle"
  /\ UNCHANGED <<guardData, pureVars, spikeVars, deadlineVars, notifyVars, runBotVars, settingsVars, exchangeVars>>
  /\ UNCHANGED <<pendingSellOrders, sellTimers, pass>>

(***************************************************************************)
(* checkProfitTaking and executeSell.  The notification sent before a sell *)
(* touches nothing and is part of the step that decides the sell.          *)
(***************************************************************************)
PENDING_SELL_MS == 300000

\* the account's fills, as /portfolio/fills returns them for a ticker
ExchangeFills ==
  << [action |-> "buy", side |-> "yes", yes_price |-> 25, count |-> 10],
     [action |-> "buy", side |-> "no", yes_price |-> 25, count |-> 10] >>

\* data.market_positions of /portfolio/positions
PositionRecords ==
  << [ticker |-> "KXNBATRADE-A",
      position |-> market_positions["KXNBATRADE-A"].position,
      no_position |-> market_positions["KXNBATRADE-A"].no_position],
     [ticker |-> "KXNBATRADE-B",
      position |-> market_positions["KXNBATRADE-B"].position,
      no_position |-> market_positions["KXNBATRADE-B"].no_position] >>

NoSell == [rule |-> "none", count |-> 0, price |-> NULL]

ProfitStrategyPartialFirstMut(pos, yp, fills, isFinalHours) ==
  LET currentSidePrice == IF pos.side = "yes" THEN yp ELSE 1000 - yp
      currentPriceCents == CurrentPriceCents(yp, pos.side)
      buyFills == BuyFills(fills, pos.side)
      totalCost == TotalCost(buyFills, pos.side)
      totalContracts == TotalContracts(buyFills)
      avgEntryPrice == IF totalContracts > 0 THEN totalCost \div totalContracts
                       ELSE 0
      \* profitPerContract * totalContracts
      gain == currentPriceCents * totalContracts - totalCost
      profitAtLeast5 == IF totalContracts > 0 THEN gain >= 5 * totalContracts
                        ELSE currentPriceCents >= 5
      hasEntry == totalContracts > 0 /\ totalCost > 0
      sellCount == pos.contracts \div 2
  IN IF buyFills = <<>> THEN NoSell
     ELSE IF /\ hasEntry /\ gain * 100 >= 30 * totalCost
             /\ currentPriceCents >= 60 /\ sellCount >= 5
       THEN [rule |-> "partial profit", count |-> sellCount,
             price |-> currentPriceCents - 2]
     ELSE IF currentSidePrice >= 950 /\ profitAtLeast5
       THEN [rule |-> "near resolution", count |-> pos.contracts,
             price |-> Max(avgEntryPrice + 3, currentPriceCents - 2)]
     ELSE IF hasEntry /\ gain * 100 <= (-40) * totalCost /\ ~isFinalHours
       THEN [rule |-> "stop loss", count |-> pos.contracts,
             price |-> currentPriceCents - 3]
     ELSE IF isFinalHours /\ currentSidePrice < 600
       THEN [rule |-> "deadline", count |-> pos.contracts,
             price |-> currentPriceCents - 5]
     ELSE NoSell
\* the four exit rules, in the order the code tries them; the cached price
\* yp is in thousandths, the entry price is totalCost / totalContracts (whole
\* cents for the fills above)
ProfitStrategy(pos, yp, fills, isFinalHours) ==
  LET currentSidePrice == IF pos.side = "yes" THEN yp ELSE 1000 - yp
      currentPriceCents == CurrentPriceCents(yp, pos.side)
      buyFills == BuyFills(fills, pos.side)
      totalCost == TotalCost(buyFills, pos.side)
      totalContracts == TotalContracts(buyFills)
      avgEntryPrice == IF totalContracts > 0 THEN totalCost \div totalContracts
                       ELSE 0
      \* profitPerContract * totalContracts
      gain == currentPriceCents * totalContracts - totalCost
      profitAtLeast5 == IF totalContracts > 0 THEN gain >= 5 * totalContracts
                        ELSE currentPriceCents >= 5
      hasEntry == totalContracts > 0 /\ totalCost > 0
      sellCount == pos.contracts \div 2
  IN IF buyFills = <<>> THEN NoSell
     ELSE IF currentSidePrice >= 950 /\ profitAtLeast5
       THEN [rule |-> "near resolution", count |-> pos.contracts,
             price |-> Max(avgEntryPrice + 3, currentPriceCents - 2)]
     ELSE IF /\ hasEntry /\ gain * 100 >= 30 * totalCost
             /\ currentPriceCents >= 60 /\ sellCount >= 5
       THEN [rule |-> "partial profit", count |-> sellCount,
             price |-> currentPriceCents - 2]
     ELSE IF hasEntry /\ gain * 100 <= (-40) * totalCost /\ ~isFinalHours
       THEN [rule |-> "stop loss", count |-> pos.contracts,
             price |-> currentPriceCents - 3]
     ELSE IF isFinalHours /\ currentSidePrice < 600
       THEN [rule |-> "deadline", count |-> pos.contracts,
             price |-> currentPriceCents - 5]
     ELSE NoSell

\* history: a sell for this very leg is known, resting when the pass asked
\* the exchange or sent by executeSell and still pending
LegHasSell(ticker, side) ==
  \/ <<ticker, side>> \in pass.restingLegs
  \/ /\ ticker \in pendingSellOrders
     /\ \E tm \in sellTimers : tm.ticker = ticker /\ tm.side = side

\* the pass begins (profit_taking is switched on); getAllPositions is awaited
checkProfitTaking ==
  /\ epc = "idle"
  /\ gpc = "idle"
  /\ pass' = NoPass
  /\ requested' = <<>>
  /\ epc' = "positions"
  /\ UNCHANGED <<guardVars, pureVars, spikeVars, deadlineVars, notifyVars, runBotVars, settingsVars, exchangeVars>>
  /\ UNCHANGED <<pendingSellOrders, sellTimers, sig>>

\* getAllPositions returned; getRestingOrders is awaited
checkProfitTakingPositions ==
  /\ epc = "positions"
  /\ \E ok \in BOOLEAN :
       LET positions == IF ok THEN getAllPositions(PositionRecords) ELSE <<>>
       IN IF positions = <<>>
            THEN pass' = NoPass /\ epc' = "idle"
            ELSE pass' = [pass EXCEPT !.positions = positions] /\ epc' = "resting"
  /\ UNCHANGED <<guardVars, pureVars, spikeVars, deadlineVars, notifyVars, runBotVars, settingsVars, exchangeVars>>
  /\ UNCHANGED <<pendingSellOrders, sellTimers, sig, requested>>

\* getRestingOrders returned the tickers with a resting sell (none when the
\* request failed); the deadline flags are computed
getRestingOrders ==
  /\ epc = "resting"
  /\ \E ok \in BOOLEAN, isFinalHours \in BOOLEAN :
       pass' = [pass EXCEPT
                  !.restingOrders = IF ok THEN {l[1] : l \in restingSells} ELSE {},
                  !.restingLegs = IF ok THEN restingSells ELSE {},
                  !.isFinalHours = isFinalHours,
                  !.i = 1]
  /\ epc' = "loop"
  /\ UNCHANGED <<guardVars, pureVars, spikeVars, deadlineVars, notifyVars, runBotVars, settingsVars, exchangeVars>>
  /\ UNCHANGED <<pendingSellOrders, sellTimers, sig, requested>>

\* the next position: skipped when its ticker has a resting or pending sell
\* or no cached price, else its fills are requested
checkProfitTakingNext ==
  /\ epc = "loop"
  /\ IF pass.i > Len(pass.positions)
       THEN pass' = NoPass /\ epc' = "idle"
       ELSE LET pos == pass.positions[pass.i]
            IN IF pos.ticker \in pass.restingOrders \cup pendingSellOrders
                 THEN /\ pass' = [pass EXCEPT
                            !.i = pass.i + 1,
                            !.skipped = pass.skipped \cup
                              {[ticker |-> pos.ticker, side |-> pos.side,
                                own |-> LegHasSell(pos.ticker, pos.side)]}]
                      /\ epc' = "loop"
                 ELSE IF yes_price[pos.ticker] = NULL
                   THEN pass' = [pass EXCEPT !.i = pass.i + 1] /\ epc' = "loop"
                 ELSE pass' = pass /\ epc' = "fills"
  /\ requested' = <<>>
  /\ UNCHANGED <<guardVars, pureVars, spikeVars, deadlineVars, notifyVars, runBotVars, settingsVars, exchangeVars>>
  /\ UNCHANGED <<pendingSellOrders, sellTimers, sig>>

\* the fills returned: no rule applies, or executeSell marks the ticker
\* pending, starts its 5 minute timer and calls placeOrder
checkProfitTakingDecide ==
  /\ epc = "fills"
  /\ LET pos == pass.positions[pass.i]
         sell == ProfitStrategy(pos, yes_price[pos.ticker], ExchangeFills,
                                pass.isFinalHours)
     IN IF sell.rule = "none"
          THEN /\ pass' = [pass EXCEPT !.i = pass.i + 1]
               /\ epc' = "loop"
               /\ UNCHANGED <<pendingSellOrders, sellTimers, requested>>
               /\ UNCHANGED <<gpc, call, result>>
          ELSE /\ pendingSellOrders' = pendingSellOrders \cup {pos.ticker}
               /\ sellTimers' = sellTimers \cup
                    {[ticker |-> pos.ticker, side |-> pos.side,
                      due |-> now + PENDING_SELL_MS]}
               /\ placeOrderEntry(pos.ticker, pos.side, "sell", sell.count,
                                  sell.price, "Confirmed")
               /\ requested' = Append(requested,
                    Request(pos.ticker, pos.side, "sell", sell.count))
               /\ epc' = "sold"
               /\ pass' = [pass EXCEPT !.sold = Append(pass.sold,
                    [ticker |-> pos.ticker, side |-> pos.side,
                     contracts |-> pos.contracts, rule |-> sell.rule,
                     count |-> sell.count])]
  /\ UNCHANGED <<guardData, pureVars, spikeVars, deadlineVars, notifyVars, runBotVars, settingsVars, exchangeVars, sig>>

\* executeSell returned: on to the next position
checkProfitTakingSold ==
  /\ epc = "sold"
  /\ gpc = "done"
  /\ GuardReset
  /\ pass' = [pass EXCEPT !.i = pass.i + 1]
  /\ epc' = "loop"
  /\ UNCHANGED <<guardData, pureVars, spikeVars, deadlineVars, notifyVars, runBotVars, settingsVars, exchangeVars>>
  /\ UNCHANGED <<pendingSellOrders, sellTimers, sig, requested>>

\* a timer of executeSell fires: pendingSellOrders.delete(ticker)
executeSellTimeout ==
  /\ \E tm \in sellTimers :
       /\ now >= tm.due
       /\ pendingSellOrders' = pendingSellOrders \ {tm.ticker}
       /\ sellTimers' = sellTimers \ {tm}
  /\ UNCHANGED <<guardVars, pureVars, spikeVars, deadlineVars, notifyVars, runBotVars, settingsVars, exchangeVars>>
  /\ UNCHANGED <<epc, sig, pass, requested>>

(***************************************************************************)
(* The exchange: an accepted sell may rest in the book, a resting sell may *)
(* leave it (cancelled, expired) while the position stays open.            *)
(***************************************************************************)
OrderRests ==
  /\ gpc \in {"notify", "record", "done"}
  /\ call.accepted
  /\ call.action = "sell"
  /\ <<call.ticker, call.side>> \notin restingSells
  /\ restingSells' = restingSells \cup {<<call.ticker, call.side>>}
  /\ UNCHANGED market_positions
  /\ UNCHANGED <<guardVars, pureVars, spikeVars, deadlineVars, notifyVars, runBotVars, settingsVars, loopVars>>

OrderLeaves ==
  /\ \E leg \in restingSells : restingSells' = restingSells \ {leg}
  /\ UNCHANGED market_positions
  /\ UNCHANGED <<guardVars, pureVars, spikeVars, deadlineVars, notifyVars, runBotVars, settingsVars, loopVars>>

(***************************************************************************)
(* The engine with trading enabled.  SpecSignal is the signal path with    *)
(* the settings, the guard and the exchange, at one reading of the clock;  *)
(* SpecProfit is the profit-taking pass with the guard, the clock, the     *)
(* timers of executeSell and the exchange.                                 *)
(***************************************************************************)
InitTrading ==
  /\ InitGuard
  /\ ~NBA_TRADING_DISABLED
  /\ InitEngine(Portfolios, {0, ClockStep})
  /\ InitRunBot({"nba-trade-bot-v2"})
  /\ InitMonitor({SpikeDefaults}, {0}, {FALSE})
  /\ InitDeadline
  /\ inp = NoInput
  /\ out = NoOutput

NextSignal ==
  \/ loadSettings
  \/ subscribeToSettingsChanges
  \/ saveSettings
  \/ executeSignal
  \/ executeSignalSize
  \/ executeSignalTier
  \/ executeSignalOpposite
  \/ executeSignalBuy
  \/ executeSignalDone
  \/ placeOrderPrice
  \/ placeOrderSkipped
  \/ placeOrderSubmit
  \/ placeOrderNotified
  \/ placeOrderRecorded
  \/ refreshMarketCache
  \/ OrderRests

SpecSignal == InitTrading /\ [][NextSignal]_vars

NextProfit ==
  \/ checkProfitTaking
  \/ checkProfitTakingPositions
  \/ getRestingOrders
  \/ checkProfitTakingNext
  \/ checkProfitTakingDecide
  \/ checkProfitTakingSold
  \/ executeSellTimeout
  \/ placeOrderPrice
  \/ placeOrderSubmit
  \/ placeOrderNotified
  \/ placeOrderRecorded
  \/ refreshMarketCache
  \/ Tick
  \/ OrderRests
  \/ OrderLeaves

SpecProfit == InitTrading /\ [][NextProfit]_vars

(***************************************************************************)
(* The main loop, runBot, and processTweet.  One tick is one pass through  *)
(* the body of the loop; the phases are awaited one after the other.  The  *)
(* profit-taking pass and executeSignal are followed here only as far as   *)
(* the loop sees them: they return, or their exception reaches the loop.   *)
(* The superbowl-ad-bot has its own, shorter loop and its own processTweet *)
(* and writes to the same tweets table.                                    *)
(***************************************************************************)
PROFIT_TAKE_INTERVAL_MS == 60000
TWITTER_STATUS_LOG_INTERVAL_MS == 300000
\* the analysis of one tweet yields at most MaxSignals signals
MaxSignals == 2
\* the loop is followed until the clock reads MaxLoopNow
MaxLoopNow == 300000
\* the last price the markets show when the loop fetches them
LoopPrices == {25}

V2 == script = "nba-trade-bot-v2"

Entry(step, id, k) == [step |-> step, id |-> id, k |-> k]

Logged(step) == Append(journal, Entry(step, 0, 0))

\* /2/users/:id/tweets answers newest first: the ids after since_id, or on
\* the first poll the ids of the look-back window (here: every tweet)
Timeline(since_id) == [j \in 1 .. (posted - since_id) |-> posted - j + 1]

\* the tweet processTweet is working on
Tweet == run.batch[run.i]

\* for (const signal of signals): another signal is left
MoreSignalsNeverMut(r) == FALSE

MoreSignals(r) == r.k < r.signals

\* processTweet returned: for (const tweet of tweets) goes on
NextTweet(r) ==
  [r EXCEPT !.i = r.i + 1, !.stage = "", !.signals = 0, !.k = 0,
            !.known = FALSE, !.market = FALSE]

\* executeSignal returned
AfterSignal(r) ==
  IF MoreSignals(r)
    THEN [r EXCEPT !.stage = "resolve", !.k = r.k + 1, !.market = FALSE]
    ELSE NextTweet(r)

\* after the signals are known: the loop over them, or the early return
AfterExtract(r) ==
  IF r.signals = 0 THEN NextTweet(r)
  ELSE [r EXCEPT !.stage = "resolve", !.k = 1]

\* await loadSettings(): skipped while the cache is fresh; a failed load
\* is caught inside
runBotLoadSettings ==
  /\ rpc = "tick"
  /\ V2
  /\ IF now - settingsLastFetched >= SETTINGS_REFRESH_MS
       THEN \E ok \in BOOLEAN : loadSettingsBody(ok)
       ELSE UNCHANGED <<botSettings, BASE_CONTRACT_COUNT, settingsLastFetched>>
  /\ journal' = Logged("loadSettings")
  /\ rpc' = "refreshMarketCache"
  /\ UNCHANGED <<bot_settings, pushPending>>
  /\ UNCHANGED <<guardVars, pureVars, spikeVars, deadlineVars, notifyVars, exchangeVars, loopVars>>
  /\ UNCHANGED <<script, posted, lastTweetIds, processedTweets, tweets,
                 bot_status, lastProfitTakeCheck, lastTwitterStatusLog, run,
                 thrown, acted, replayed, restarts>>

\* await refreshMarketCache(): the cache is fresh, or the markets are
\* fetched; a failed fetch is caught inside and leaves the cache
runBotRefreshMarketCache ==
  /\ \/ rpc = "refreshMarketCache"
     \/ rpc = "tick" /\ ~V2
  /\ \E r \in {NULL} \cup LoopPrices :
       yes_price' = IF r = NULL THEN yes_price
                    ELSE [t \in Tickers |-> CacheFraction(r)]
  /\ journal' = Logged("refreshMarketCache")
  /\ rpc' = IF V2 THEN "checkProfitTaking" ELSE "pollTwitter"
  /\ UNCHANGED <<NBA_TRADING_DISABLED, now, recentBuys, gpc, call, result, buyOkAt>>
  /\ UNCHANGED <<pureVars, spikeVars, deadlineVars, notifyVars, settingsVars, exchangeVars, loopVars>>
  /\ UNCHANGED <<script, posted, lastTweetIds, processedTweets, tweets,
                 bot_status, lastProfitTakeCheck, lastTwitterStatusLog, run,
                 thrown, acted, replayed, restarts>>

\* the profit-taking pass when it is due: it returns, or the request for
\* the fills of a position throws and the exception ends the tick in the
\* catch of the loop
runBotCheckProfitTaking ==
  /\ rpc = "checkProfitTaking"
  /\ IF now - lastProfitTakeCheck > PROFIT_TAKE_INTERVAL_MS
       THEN /\ lastProfitTakeCheck' = now
            /\ journal' = Logged("checkProfitTaking")
            /\ \E threw \in BOOLEAN :
                 /\ thrown' = IF threw THEN "checkProfitTaking" ELSE thrown
                 /\ rpc' = IF threw THEN "sleep" ELSE "checkDeadlineNoBuying"
       ELSE /\ rpc' = "checkDeadlineNoBuying"
            /\ UNCHANGED <<lastProfitTakeCheck, journal, thrown>>
  /\ UNCHANGED <<guardVars, pureVars, spikeVars, deadlineVars, notifyVars, settingsVars, exchangeVars, loopVars>>
  /\ UNCHANGED <<script, posted, lastTweetIds, processedTweets, tweets,
                 bot_status, lastTwitterStatusLog, run, acted, replayed,
                 restarts>>

\* await checkDeadlineNoBuying(): the phase returns
runBotCheckDeadlineNoBuying ==
  /\ rpc = "checkDeadlineNoBuying"
  /\ journal' = Logged("checkDeadlineNoBuying")
  /\ rpc' = "checkPriceMovements"
  /\ UNCHANGED <<guardVars, pureVars, spikeVars, deadlineVars, notifyVars, settingsVars, exchangeVars, loopVars>>
  /\ UNCHANGED <<script, posted, lastTweetIds, processedTweets, tweets,
                 bot_status, lastProfitTakeCheck, lastTwitterStatusLog, run,
                 thrown, acted, replayed, restarts>>

\* await checkPriceMovements(), the spike detection pass: it returns
runBotCheckPriceMovements ==
  /\ rpc = "checkPriceMovements"
  /\ journal' = Logged("checkPriceMovements")
  /\ rpc' = "monitors"
  /\ UNCHANGED <<guardVars, pureVars, spikeVars, deadlineVars, notifyVars, settingsVars, exchangeVars, loopVars>>
  /\ UNCHANGED <<script, posted, lastTweetIds, processedTweets, tweets,
                 bot_status, lastProfitTakeCheck, lastTwitterStatusLog, run,
                 thrown, acted, replayed, restarts>>

\* order book depth, flights, the summary and the price history, each when
\* it is due
runBotMonitors ==
  /\ rpc = "monitors"
  /\ journal' = Logged("monitors")
  /\ rpc' = "pollTwitter"
  /\ UNCHANGED <<guardVars, pureVars, spikeVars, deadlineVars, notifyVars, settingsVars, exchangeVars, loopVars>>
  /\ UNCHANGED <<script, posted, lastTweetIds, processedTweets, tweets,
                 bot_status, lastProfitTakeCheck, lastTwitterStatusLog, run,
                 thrown, acted, replayed, restarts>>

\* pollTwitter: the request fails (nothing new, since_id stays) or returns
\* the timeline; the ids already seen are dropped; when the status log is
\* due saveLastTweetIds writes since_id into bot_status.meta (a failed
\* write is ignored)
pollTwitter ==
  /\ rpc = "pollTwitter"
  /\ \E ok \in BOOLEAN, saved \in BOOLEAN :
       LET data == IF ok THEN Timeline(lastTweetIds) ELSE <<>>
           allTweets == SelectSeq(data, LAMBDA id : id \notin processedTweets)
           newest_id == IF data # <<>> THEN data[1] ELSE lastTweetIds
           due == /\ V2
                  /\ \/ lastTwitterStatusLog = 0
                     \/ now - lastTwitterStatusLog > TWITTER_STATUS_LOG_INTERVAL_MS
       IN /\ lastTweetIds' = newest_id
          /\ run' = [NoRun EXCEPT !.batch = allTweets, !.i = 1]
          /\ lastTwitterStatusLog' = IF due THEN now ELSE lastTwitterStatusLog
          /\ bot_status' = IF due /\ saved THEN [lastTweetIds |-> newest_id]
                           ELSE bot_status
  /\ journal' = Logged("pollTwitter")
  /\ rpc' = IF V2 THEN "bot_status" ELSE "processTweet"
  /\ UNCHANGED <<guardVars, pureVars, spikeVars, deadlineVars, notifyVars, settingsVars, exchangeVars, loopVars>>
  /\ UNCHANGED <<script, posted, processedTweets, tweets, lastProfitTakeCheck,
                 thrown, acted, replayed, restarts>>

\* the upsert of the bot_status row: its meta replaces the stored meta, so
\* meta.lastTweetIds is gone; a failed upsert is logged
runBotStatus ==
  /\ rpc = "bot_status"
  /\ \E ok \in BOOLEAN :
       bot_status' = IF ok THEN [lastTweetIds |-> 0] ELSE bot_status
  /\ journal' = Logged("bot_status")
  /\ rpc' = "processTweet"
  /\ UNCHANGED <<guardVars, pureVars, spikeVars, deadlineVars, notifyVars, settingsVars, exchangeVars, loopVars>>
  /\ UNCHANGED <<script, posted, lastTweetIds, processedTweets, tweets,
                 lastProfitTakeCheck, lastTwitterStatusLog, run, thrown,
                 acted, replayed, restarts>>

\* the select on the tweets table: the row, or no data (the row is absent
\* or the request failed)
SelectExisting(id) == IF id \in tweets THEN BOOLEAN ELSE {FALSE}

\* for (const tweet of tweets) await processTweet(tweet): the batch is
\* done, or the tweet is dropped as seen (in memory; v2: or in the table),
\* or it is added to the set in memory and goes on
processTweet ==
  /\ rpc = "processTweet"
  /\ run.stage = ""
  /\ IF run.i > Len(run.batch)
       THEN /\ rpc' = "sleep"
            /\ UNCHANGED <<run, processedTweets, journal>>
       ELSE /\ rpc' = rpc
            /\ journal' = Append(journal, Entry("processTweet", Tweet, 0))
            /\ IF Tweet \in processedTweets
                 THEN /\ run' = NextTweet(run)
                      /\ UNCHANGED processedTweets
                 ELSE /\ processedTweets' = processedTweets \cup {Tweet}
                      /\ IF V2
                           THEN \E existing \in SelectExisting(Tweet) :
                                  run' = IF existing THEN NextTweet(run)
                                         ELSE [run EXCEPT
                                                 !.stage = "extract",
                                                 !.known = Tweet \in tweets]
                           ELSE run' = [run EXCEPT !.stage = "store",
                                                   !.known = Tweet \in tweets]
  /\ UNCHANGED <<guardVars, pureVars, spikeVars, deadlineVars, notifyVars, settingsVars, exchangeVars, loopVars>>
  /\ UNCHANGED <<script, posted, lastTweetIds, tweets, bot_status,
                 lastProfitTakeCheck, lastTwitterStatusLog, thrown, acted,
                 replayed, restarts>>

\* extractSignalsWithLLM (v2), analyzeAdTweet (ad bot): the signals
processTweetExtract ==
  /\ rpc = "processTweet"
  /\ run.stage = "extract"
  /\ \E n \in 0 .. MaxSignals :
       /\ journal' = Append(journal, Entry("extract", Tweet, n))
       /\ acted' = IF n > 0 THEN [acted EXCEPT ![Tweet] = @ + 1] ELSE acted
       /\ replayed' = IF n > 0 /\ run.known THEN replayed \cup {Tweet}
                      ELSE replayed
       /\ run' = IF V2 THEN [run EXCEPT !.stage = "store", !.signals = n]
                 ELSE AfterExtract([run EXCEPT !.signals = n])
  /\ UNCHANGED rpc
  /\ UNCHANGED <<guardVars, pureVars, spikeVars, deadlineVars, notifyVars, settingsVars, exchangeVars, loopVars>>
  /\ UNCHANGED <<script, posted, lastTweetIds, processedTweets, tweets,
                 bot_status, lastProfitTakeCheck, lastTwitterStatusLog,
                 thrown, restarts>>

\* the upsert into the tweets table; a failed upsert stores nothing
processTweetStore ==
  /\ rpc = "processTweet"
  /\ run.stage = "store"
  /\ \E ok \in BOOLEAN :
       tweets' = IF ok THEN tweets \cup {Tweet} ELSE tweets
  /\ journal' = Append(journal, Entry("store", Tweet, 0))
  /\ run' = IF V2 THEN AfterExtract(run) ELSE [run EXCEPT !.stage = "extract"]
  /\ UNCHANGED rpc
  /\ UNCHANGED <<guardVars, pureVars, spikeVars, deadlineVars, notifyVars, settingsVars, exchangeVars, loopVars>>
  /\ UNCHANGED <<script, posted, lastTweetIds, processedTweets, bot_status,
                 lastProfitTakeCheck, lastTwitterStatusLog, thrown, acted,
                 replayed, restarts>>

\* a signal of the analysis whose player has no name (the JSON of the model
\* is not validated): findTradeMarket calls normalizeName on it, which
\* throws a TypeError
SignalNames == {"name", "none"}

\* await executeSignal(signal): the market of the signal is looked up; the
\* TypeError of a signal without a name (v2, from the analysis) leaves
\* executeSignal, processTweet and the loop over the batch, and ends the
\* tick in the catch of the main loop
processTweetSignal ==
  /\ rpc = "processTweet"
  /\ run.stage = "resolve"
  /\ journal' = Append(journal, Entry("resolve", Tweet, run.k))
  /\ \E player \in SignalNames, market \in BOOLEAN :
       IF player = "none" /\ V2
         THEN /\ thrown' = "executeSignal"
              /\ rpc' = "sleep"
              /\ UNCHANGED run
         ELSE /\ run' = [run EXCEPT !.stage = "size", !.market = market]
              /\ UNCHANGED <<rpc, thrown>>
  /\ UNCHANGED <<guardVars, pureVars, spikeVars, deadlineVars, notifyVars, settingsVars, exchangeVars, loopVars>>
  /\ UNCHANGED <<script, posted, lastTweetIds, processedTweets, tweets,
                 bot_status, lastProfitTakeCheck, lastTwitterStatusLog,
                 acted, replayed, restarts>>

\* the position of the signal is sized; with 0 contracts, or without a
\* market, executeSignal returns without an order
processTweetSignalSize ==
  /\ rpc = "processTweet"
  /\ run.stage = "size"
  /\ \E contracts \in {0, 1} :
       IF contracts = 0 \/ ~run.market
         THEN /\ journal' = Append(journal, Entry("no order", Tweet, run.k))
              /\ run' = AfterSignal(run)
         ELSE /\ journal' = Append(journal, Entry("size", Tweet, run.k))
              /\ run' = [run EXCEPT !.stage = "execute"]
  /\ UNCHANGED rpc
  /\ UNCHANGED <<guardVars, pureVars, spikeVars, deadlineVars, notifyVars, settingsVars, exchangeVars, loopVars>>
  /\ UNCHANGED <<script, posted, lastTweetIds, processedTweets, tweets,
                 bot_status, lastProfitTakeCheck, lastTwitterStatusLog,
                 thrown, acted, replayed, restarts>>

\* placeOrder returned (the order is submitted or rejected) and with it
\* executeSignal
processTweetSignalOrder ==
  /\ rpc = "processTweet"
  /\ run.stage = "execute"
  /\ journal' = Append(journal, Entry("execute", Tweet, run.k))
  /\ run' = AfterSignal(run)
  /\ UNCHANGED rpc
  /\ UNCHANGED <<guardVars, pureVars, spikeVars, deadlineVars, notifyVars, settingsVars, exchangeVars, loopVars>>
  /\ UNCHANGED <<script, posted, lastTweetIds, processedTweets, tweets,
                 bot_status, lastProfitTakeCheck, lastTwitterStatusLog,
                 thrown, acted, replayed, restarts>>

\* the sleep at the end of the tick; the next tick begins, at the same
\* reading of the model's clock or at the next
runBotSleep ==
  /\ rpc = "sleep"
  /\ \E d \in {0, ClockStep} :
       /\ now + d <= MaxLoopNow
       /\ now' = now + d
  /\ rpc' = "tick"
  /\ run' = NoRun
  /\ journal' = <<>>
  /\ thrown' = ""
  /\ UNCHANGED <<NBA_TRADING_DISABLED, recentBuys, yes_price, gpc, call, result, buyOkAt>>
  /\ UNCHANGED <<pureVars, spikeVars, deadlineVars, notifyVars, settingsVars, exchangeVars, loopVars>>
  /\ UNCHANGED <<script, posted, lastTweetIds, processedTweets, tweets,
                 bot_status, lastProfitTakeCheck, lastTwitterStatusLog,
                 acted, replayed, restarts>>

\* the source posts a tweet
NewTweet ==
  /\ posted < MaxTweets
  /\ posted' = posted + 1
  /\ UNCHANGED <<guardVars, pureVars, spikeVars, deadlineVars, notifyVars, settingsVars, exchangeVars, loopVars>>
  /\ UNCHANGED <<script, lastTweetIds, processedTweets, tweets, bot_status,
                 lastProfitTakeCheck, lastTwitterStatusLog, rpc, run, journal,
                 thrown, acted, replayed, restarts>>

\* the process is stopped between two ticks and started again: what was in
\* memory is gone; v2 reads meta.lastTweetIds back (loadLastTweetIds; a
\* failed read leaves none) and loads the settings, the ad bot starts with
\* no since_id; both fetch the markets
Restart ==
  /\ rpc = "sleep"
  /\ restarts < MaxRestarts
  /\ restarts' = restarts + 1
  /\ processedTweets' = FreshProcess.processedTweets
  /\ lastTweetIds' \in IF V2 THEN {bot_status.lastTweetIds, FreshProcess.lastTweetIds}
                       ELSE {FreshProcess.lastTweetIds}
  /\ lastProfitTakeCheck' = FreshProcess.lastProfitTakeCheck
  /\ lastTwitterStatusLog' = FreshProcess.lastTwitterStatusLog
  /\ rpc' = FreshProcess.rpc
  /\ run' = FreshProcess.run
  /\ journal' = <<>>
  /\ thrown' = ""
  /\ recentBuys' = [t \in Tickers |-> 0]
  /\ \E r \in {NULL} \cup LoopPrices :
       yes_price' = [t \in Tickers |-> IF r = NULL THEN NULL ELSE CacheFraction(r)]
  /\ IF V2 THEN \E ok \in BOOLEAN : loadSettingsBody(ok)
     ELSE UNCHANGED <<botSettings, BASE_CONTRACT_COUNT, settingsLastFetched>>
  /\ UNCHANGED <<NBA_TRADING_DISABLED, now, gpc, call, result, buyOkAt>>
  /\ UNCHANGED <<bot_settings, pushPending>>
  /\ UNCHANGED <<pureVars, spikeVars, deadlineVars, notifyVars, exchangeVars, loopVars>>
  /\ UNCHANGED <<script, posted, tweets, bot_status, acted, replayed>>

InitLoop ==
  /\ InitGuard
  /\ ~NBA_TRADING_DISABLED
  /\ InitEngine({CHOOSE p \in Portfolios : p["KXNBATRADE-B"].position = 0},
                {ClockStep})
  /\ InitRunBot(Scripts)
  /\ InitMonitor({SpikeDefaults}, {0}, {FALSE})
  /\ InitDeadline
  /\ inp = NoInput
  /\ out = NoOutput

NextLoop ==
  \/ runBotLoadSettings
  \/ runBotRefreshMarketCache
  \/ runBotCheckProfitTaking
  \/ runBotCheckDeadlineNoBuying
  \/ runBotCheckPriceMovements
  \/ runBotMonitors
  \/ pollTwitter
  \/ runBotStatus
  \/ processTweet
  \/ processTweetExtract
  \/ processTweetStore
  \/ processTweetSignal
  \/ processTweetSignalSize
  \/ processTweetSignalOrder
  \/ runBotSleep
  \/ NewTweet
  \/ Restart

SpecLoop == InitLoop /\ [][NextLoop]_vars

(***************************************************************************)
(* The order execution guard: properties.                                  *)
(***************************************************************************)
\* C1: with the kill switch set, every placeOrder call (any ticker, side,
\* action) returns the failure "Trading disabled" in its first step: no
\* orderbook lookup is made, nothing is posted to the exchange and the
\* dedup map stays as it was (empty).
C1_KillSwitchFirst ==
  NBA_TRADING_DISABLED =>
    /\ gpc \in {"idle", "done"}
    /\ call.posts = 0 /\ call.lookups = 0 /\ call.received = 0
    /\ recentBuys = [t \in Tickers |-> 0]
    /\ (gpc = "done" => result = Failure("Trading disabled"))

C1_Witness ==
  /\ NBA_TRADING_DISABLED
  /\ gpc = "done"
  /\ call.action = "sell" /\ call.side = "no"
  /\ result = Failure("Trading disabled")

\* C2: a buy that arrives less than DEDUP_COOLDOWN_MS after the guard saw a
\* buy for the same ticker accepted is rejected with the reason "Dedup" in
\* its first step, and nothing is looked up or posted for it.
C2_DedupWithinCooldown ==
  call.dedupDue =>
    /\ gpc = "done"
    /\ result = Failure("Dedup")
    /\ call.posts = 0 /\ call.lookups = 0 /\ call.received = 0

C2_Witness ==
  /\ call.dedupDue
  /\ gpc = "done"
  /\ now > buyOkAt[call.ticker]
  /\ result = Failure("Dedup")

\* C8: a buy that was posted carries a limit price no greater than the
\* maxPrice it was called with; a buy whose reference price is 98c or more,
\* or above maxPrice, is rejected and never posted.
C8_BuyPriceWithinTierMax ==
  call.action = "buy" =>
    /\ (call.posts > 0 => call.price # NULL /\ call.price <= call.maxPrice)
    /\ (gpc = "submit" => call.price # NULL /\ call.price <= call.maxPrice)
    /\ ((/\ call.referencePrice # NULL
         /\ (call.referencePrice >= 98 \/ call.referencePrice > call.maxPrice))
        => /\ call.posts = 0
           /\ gpc \in {"skipNotify", "done"}
           /\ (gpc = "done" => ~result.success /\ result.orderId = 0))

\* a Serious buy accepted at the tier maximum because reference + slippage
\* would have gone over it
C8_Witness ==
  /\ gpc = "done"
  /\ call.action = "buy" /\ call.tier = "Serious"
  /\ result.success
  /\ call.price = call.maxPrice
  /\ call.referencePrice + SLIPPAGE > call.maxPrice

\* C10: once the exchange has accepted the order, placeOrder returns success
\* with the order id whatever the notification send and the trades insert did.
C10_AcceptedStaysSuccess ==
  (gpc = "done" /\ call.accepted) =>
    /\ result.success
    /\ result.orderId \in OrderIds
    /\ result.error = ""

C10_Witness ==
  /\ gpc = "done"
  /\ call.accepted
  /\ call.notify = "failed"
  /\ call.insert = "error"
  /\ result.success

(***************************************************************************)
(* Prices and positions: properties.                                       *)
(***************************************************************************)
RECURSIVE YesCost(_)
\* the cost of the NO buys of a fill list at their YES prices
YesCost(fills) ==
  IF fills = <<>> THEN 0
  ELSE (IF Head(fills).action = "buy" /\ Head(fills).side = "no"
          THEN Head(fills).yes_price * Head(fills).count ELSE 0)
       + YesCost(Tail(fills))

\* C3: every price derived for a NO leg is 100 minus the YES price, to the
\* cent: the guard's cached reference price, the profit-taking current
\* price, the sizing price of a buy_no signal (a YES price of 0 counts as
\* no price: the guard then has no cached price, and sizing takes YES and NO
\* at 50), and the entry cost of a NO position (100 per contract minus its
\* cost at the YES prices of its buy fills).
C3_NoPriceIsComplement ==
  out.side = "no" =>
    /\ out.fn = "LastPrice" =>
         out.value = IF inp.last_price = 0 THEN NULL ELSE 100 - inp.last_price
    /\ out.fn = "CurrentPriceCents" => out.value = 100 - inp.last_price
    /\ out.fn = "SignalCurrentPrice" =>
         out.value = IF inp.last_price = 0 THEN 50 ELSE 100 - inp.last_price
    /\ out.fn = "TotalCost" => out.value = 100 * out.n - YesCost(inp.fills)

C3_Witness ==
  /\ out.fn = "LastPrice" /\ out.side = "no"
  /\ inp.last_price = 62
  /\ out.value = 38

\* C4: for a record with position = a > 0 and no_position = b > 0 on one
\* ticker, a position fetch reports exactly the legs (ticker, yes, a) and
\* (ticker, no, b).
C4_BothLegsReported ==
  (/\ out.fn \in {"getAllPositions", "PositionsRoute"}
   /\ inp.position > 0 /\ inp.no_position > 0)
  => out.legs = <<[ticker |-> "KXNBATRADE-A", contracts |-> inp.position,
                   side |-> "yes"],
                  [ticker |-> "KXNBATRADE-A", contracts |-> inp.no_position,
                   side |-> "no"]>>

(***************************************************************************)
(* The engine: properties.                                                 *)
(***************************************************************************)
\* C5: in a profit-taking pass each leg of a ticker is evaluated on its own:
\* a leg is skipped for a resting or pending sell only when that sell is for
\* this very leg, never because of a sell for the other leg of its ticker.
C5_LegSkippedOnlyForOwnSell ==
  \A k \in pass.skipped : k.own

\* C6: every settings value a signal's decision uses (the base contract
\* count behind its size, its tier's max price) is the value of the settings
\* as they stood when the decision began.
C6_OneSettingsSnapshot ==
  epc \in {"track", "position", "selling", "buying"} =>
    /\ sig.base = sig.snapshot.base_contract_count
    /\ (sig.tierMaxPrice # NULL =>
          sig.tierMaxPrice = getConfidenceTierMaxPrice(sig.snapshot, sig.tier))

\* C7: no sell order is sent to the exchange for a ticker that has a sell
\* order resting on the exchange.
C7_NoSellOnRestingSell ==
  ~call.onResting

\* C9: one placeOrder call posts at most once; when the exchange rejected
\* the order or the request failed, the call returns a failure with the
\* error and no order id; and within one decision the caller asks at most
\* once for an order on a given ticker, side and action, whatever its size.
C9_NoResubmission ==
  /\ call.posts <= 1
  /\ (gpc = "done" /\ call.posts = 1 /\ ~call.accepted) =>
       /\ ~result.success
       /\ result.orderId = 0
       /\ result.error \in {"rejected", "exception"}
  /\ \A i, j \in DOMAIN requested :
       (/\ i # j
        /\ requested[i].ticker = requested[j].ticker
        /\ requested[i].side = requested[j].side)
       => requested[i].action # requested[j].action

\* a signal's buy was rejected by the exchange after its opposite leg was
\* sold: the failure is returned and the signal ends there
C9_Witness ==
  /\ epc = "buying"
  /\ gpc = "done"
  /\ Len(requested) = 2
  /\ call.action = "buy"
  /\ call.posts = 1
  /\ result = Failure("rejected")

(***************************************************************************)
(* Extraction and resolution: properties.                                  *)
(***************************************************************************)
\* C11: no signal that leaves extraction, on the LLM path or on the keyword
\* path, has the tier Exploring; and a signal of tier Exploring would be
\* sized at 0 contracts, for which executeSignal returns before any order.
C11_NoExploringSignal ==
  /\ \A i \in DOMAIN out.signals : out.signals[i].tier # "Exploring"
  /\ \A base \in {20, 100}, score \in {0, 30, 70, 100},
        price \in {0, 1, 50, 99}, m \in {50, 100, 150} :
       Contracts(base, calculateDynamicPositionSize(
                         PositionPct("Exploring"), score, price, m)) = 0

\* the analysis names an exploring player and a confirmed one, both being
\* traded: only the confirmed one becomes a signal
C11_Witness ==
  /\ out.fn = "extractSignalsWithLLM"
  /\ inp.llm.ok
  /\ Len(inp.llm.players) = 2
  /\ inp.llm.players[1].confidence = "exploring"
  /\ inp.llm.players[1].is_being_traded
  /\ inp.llm.players[2].confidence = "confirmed"
  /\ inp.llm.players[2].is_being_traded
  /\ Len(out.signals) = 1
  /\ out.signals[1].tier = "Confirmed"

\* C12: findTradeMarket returns a market only when its normalized name is
\* the normalized query, or when first names are equal, last names are equal
\* and the last name has 4 characters or more; a surname alone, an initial
\* with a surname, or a truncated name returns no market.
C12_ExactOrFullNameMatch ==
  out.fn = "findTradeMarket" =>
    /\ out.market # 0 =>
         LET m == normalizeName(
                    TradeMarketLists[inp.markets][out.market].player_name)
             q == normalizeName(inp.query)
         IN \/ m = q
            \/ /\ FirstWord(m) = FirstWord(q)
               /\ LastWord(m) = LastWord(q)
               /\ Len(LastWord(m)) >= 4
    /\ inp.query \in {Smith, JDotSmith, JohnSmi, BoLi} => out.market = 0
    /\ normalizeName(JohnSmithSpaced) =
         <<"j", "o", "h", "n", " ", "s", "m", "i", "t", "h">>

\* " john  SMITH " finds John Smith, and not Jon Smith
C12_Witness ==
  /\ out.fn = "findTradeMarket"
  /\ inp.query = JohnSmithSpaced
  /\ inp.markets = 1
  /\ out.market = 1

\* the markets a query matches, exactly or on first and last name
Candidates(markets, query) ==
  {i \in DOMAIN markets :
     \/ normalizeName(markets[i].player_name) = normalizeName(query)
     \/ PartialMatch(normalizeName(markets[i].player_name),
                     normalizeName(query))}

\* C13: when a query does not match exactly one market (none, or several),
\* findTradeMarket returns no market.
C13_AmbiguousQueryNoMarket ==
  (/\ out.fn = "findTradeMarket"
   /\ Cardinality(Candidates(TradeMarketLists[inp.markets], inp.query)) # 1)
  => out.market = 0

\* C14: findNextTeamMarket returns a market only when the destination text
\* is a key of the alias table whose code is the market's team code, and the
\* market's player is the player asked for.
C14_DestinationAliasOnly ==
  (out.fn = "findNextTeamMarket" /\ out.market # 0) =>
    LET m == NextTeamMarketLists[inp.markets][out.market]
    IN /\ \E e \in DOMAIN TEAM_CODES :
            /\ TEAM_CODES[e][1] = toLowerCase(inp.team)
            /\ TEAM_CODES[e][2] = m.team_code
       /\ toLowerCase(m.player_name) = toLowerCase(inp.query)

(***************************************************************************)
(* The main loop and processTweet: properties.                             *)
(***************************************************************************)
\* C15: each tweet id is acted on (signals extracted from it) at most once
\* over the life of the system, and no tweet is acted on while its id is
\* stored in the tweets table, also after a restart has emptied the set in
\* memory.
C15_ActedAtMostOnce ==
  /\ \A id \in 1 .. MaxTweets : acted[id] <= 1
  /\ replayed = {}

\* the entries of the journal before position q
Before(q) == SubSeq(journal, 1, q - 1)

Has(entries, e) == \E p \in 1 .. Len(entries) : entries[p] = e

\* signal k of tweet id has run to its end before position q: its order was
\* submitted or rejected, or it was sized to nothing or had no market
SignalDone(id, k, q) ==
  \/ Has(Before(q), Entry("execute", id, k))
  \/ Has(Before(q), Entry("no order", id, k))

\* C16: within a tick the tweets are processed in the order of the batch;
\* each signal is resolved, sized and executed in this order; and when
\* processTweet begins with the next tweet, every signal of every earlier
\* tweet has run to its end.
C16_SerializedInReceiptOrder ==
  /\ LET starts == SelectSeq(journal, LAMBDA e : e.step = "processTweet")
     IN \A j \in 1 .. Len(starts) : starts[j].id = run.batch[j]
  /\ \A q \in 1 .. Len(journal) :
       /\ journal[q].step = "execute" =>
            /\ q > 2
            /\ journal[q - 1] = Entry("size", journal[q].id, journal[q].k)
            /\ journal[q - 2] = Entry("resolve", journal[q].id, journal[q].k)
       /\ journal[q].step = "no order" =>
            /\ q > 1
            /\ journal[q - 1] = Entry("resolve", journal[q].id, journal[q].k)
       /\ journal[q].step = "processTweet" =>
            \A p \in 1 .. (q - 1) :
              journal[p].step = "extract" =>
                \A k \in 1 .. journal[p].k : SignalDone(journal[p].id, k, q)

\* a tick in which a tweet with two signals, an order among them, is
\* followed by another tweet whose signals are extracted
C16_Witness ==
  \E p \in 1 .. Len(journal), q \in 1 .. Len(journal) :
    /\ p < q
    /\ journal[p].step = "extract"
    /\ journal[p].k = 2
    /\ Has(Before(q), Entry("execute", journal[p].id, 2))
    /\ journal[q].step = "extract"
    /\ journal[q].id # journal[p].id

\* the place of a step among the phases of the tick: settings, instrument
\* cache, profit-taking, spike detection, poll and process, status
PhaseRank(step) ==
  CASE step = "loadSettings" -> 1
    [] step = "refreshMarketCache" -> 2
    [] step = "checkProfitTaking" -> 3
    [] step = "checkPriceMovements" -> 4
    [] step \in {"pollTwitter", "processTweet", "extract", "store", "resolve",
                 "no order", "size", "execute"} -> 5
    [] step = "bot_status" -> 6
    [] OTHER -> 0

\* C17: the steps of a tick of nba-trade-bot-v2 follow the order of the
\* phases: settings, instrument cache, profit-taking, spike detection, poll
\* and process the tweets, status; so the status is written after the
\* tweets of the tick are processed.
C17_PhasesInOrder ==
  V2 => \A p \in 1 .. Len(journal), q \in 1 .. Len(journal) :
          (/\ p < q
           /\ PhaseRank(journal[p].step) # 0
           /\ PhaseRank(journal[q].step) # 0)
          => PhaseRank(journal[p].step) <= PhaseRank(journal[q].step)

\* C18: when a phase of a tick of nba-trade-bot-v2 failed, the phases after
\* it have still run by the end of the tick.
C18_FailureSkipsOnlyItsPhase ==
  (V2 /\ rpc = "sleep" /\ thrown # "") =>
    \A later \in {"checkPriceMovements", "pollTwitter", "bot_status"} :
      PhaseRank(later) > PhaseRank(thrown) => Has(journal, Entry(later, 0, 0))

(***************************************************************************)
(* The profit-taking pass: properties.                                     *)
(***************************************************************************)
\* C19: a sell of the profit-taking pass uses the contract count of a
\* position fetched immediately before the decision: since getAllPositions
\* returned, no other position has been evaluated and no other order has
\* been submitted.
C19_CountFetchedBeforeUse ==
  epc = "sold" => pass.i = 1 /\ Len(pass.sold) = 1

\* the exit rules in the order of their priority
RulePriority == <<"near resolution", "partial profit", "stop loss", "deadline">>

\* the condition of an exit rule for a position at the cached price; the
\* gain is over all the contracts bought
RuleHolds(rule, pos, isFinalHours) ==
  LET price == CurrentPriceCents(yes_price[pos.ticker], pos.side)
      buyFills == BuyFills(ExchangeFills, pos.side)
      cost == TotalCost(buyFills, pos.side)
      bought == TotalContracts(buyFills)
      gain == price * bought - cost
  IN CASE rule = "near resolution" -> price >= 95 /\ gain >= 5 * bought
       [] rule = "partial profit" ->
            gain * 100 >= 30 * cost /\ price >= 60 /\ pos.contracts \div 2 >= 5
       [] rule = "stop loss" -> gain * 100 <= (-40) * cost /\ ~isFinalHours
       [] rule = "deadline" -> isFinalHours /\ price < 60

HighestRule(pos, isFinalHours) ==
  LET holding == {j \in DOMAIN RulePriority :
                    RuleHolds(RulePriority[j], pos, isFinalHours)}
  IN IF holding = {} THEN "none"
     ELSE RulePriority[CHOOSE j \in holding : \A k \in holding : j <= k]

EntryCents(side) ==
  TotalCost(BuyFills(ExchangeFills, side), side)
    \div TotalContracts(BuyFills(ExchangeFills, side))

\* C21: the sell order the near-resolution rule sends to the exchange is for
\* the whole position, at the limit max(entry + 3, current - 2).
C21_NearResolutionLimit ==
  (/\ epc = "sold"
   /\ gpc = "submit"
   /\ pass.sold[Len(pass.sold)].rule = "near resolution")
  => LET pos == pass.positions[pass.i]
     IN /\ call.action = "sell"
        /\ call.count = pos.contracts
        /\ call.price =
             Max(EntryCents(pos.side) + 3,
                 CurrentPriceCents(yes_price[pos.ticker], pos.side) - 2)

\* C22: at the end of a profit-taking pass run in the final hours, every
\* position of the pass whose side price is below 60 has had a sell of the
\* whole position requested by the deadline rule, unless a sell of this
\* very leg was already known.
C22_DeadlineLiquidatesAll ==
  (/\ epc = "loop"
   /\ pass.i > Len(pass.positions)
   /\ pass.isFinalHours)
  => \A j \in DOMAIN pass.positions :
       LET pos == pass.positions[j]
       IN (/\ yes_price[pos.ticker] # NULL
           /\ CurrentPriceCents(yes_price[pos.ticker], pos.side) < 60)
          => \/ \E k \in DOMAIN pass.sold :
                  /\ pass.sold[k].ticker = pos.ticker
                  /\ pass.sold[k].side = pos.side
                  /\ pass.sold[k].rule = "deadline"
                  /\ pass.sold[k].count = pos.contracts
             \/ \E sk \in pass.skipped :
                  sk.ticker = pos.ticker /\ sk.side = pos.side /\ sk.own

(***************************************************************************)
(* Keyword path: properties.                                               *)
(***************************************************************************)
\* the keyword class of a positive tier
TierClass(tier) ==
  CASE tier = "Confirmed" -> "CONFIRMED"
    [] tier = "Imminent" -> "IMMINENT"
    [] tier = "Serious" -> "SERIOUS"
    [] tier = "Exploring" -> "EXPLORING"

PositiveTiers == {"Confirmed", "Imminent", "Serious", "Exploring"}

\* C29: a text with a Negative keyword is classified Negative whatever else
\* it holds; otherwise the result is the strongest positive tier that has a
\* keyword in the text; a text with no keyword is classified Exploring.
C29_ClassifierCascade ==
  out.fn = "classifyConfidence"
  => LET keywords == inp.text.keywords
         present == {t \in PositiveTiers : TierClass(t) \in keywords}
     IN /\ "NEGATIVE" \in keywords => out.confidence = "Negative"
        /\ ("NEGATIVE" \notin keywords /\ present # {})
           => /\ out.confidence \in present
              /\ \A t \in present :
                   TierLevel(out.confidence) <= TierLevel(t)
        /\ keywords = {} => out.confidence = "Exploring"

\* a text with a Confirmed and a Negative keyword has been classified
C29_Witness ==
  /\ out.fn = "classifyConfidence"
  /\ {"CONFIRMED", "NEGATIVE"} \subseteq inp.text.keywords
  /\ out.confidence = "Negative"

\* C30: the keyword path emits no signal for a player the text names in a
\* negative context (passed over, an alternative that was not chosen).
C30_RejectedAlternativeSuppressed ==
  out.fn = "extractSignalsKeyword"
  => \A k \in DOMAIN out.signals :
       out.signals[k].player \notin inp.text.negative

(***************************************************************************)
(* Price movement detection: checkPriceMovements and handlePriceSpike.     *)
(***************************************************************************)
\* PRICE_ALERT_THRESHOLD = 0.10, as a percentage
PRICE_ALERT_THRESHOLD == 10
PRICE_HISTORY_WINDOW_MS == 300000

\* the time between two passes of the price monitor
SpikeStep == 100000
MaxSpikeNow == 550000

\* the order of tradeMarkets
MarketOrder == <<"KXNBATRADE-A", "KXNBATRADE-B">>
\* the last traded prices the exchange reports during a session, in cents;
\* none of their ratios sits exactly on a threshold, where the quotient of
\* two doubles may fall to the other side
SpikePrices ==
  [t \in Tickers |->
     IF t = "KXNBATRADE-A" THEN {12, 16, 20, 46, 50, 65, 86} ELSE {50}]
Volumes == {2000, 20000, 30000}
SpikeSettingsRows ==
  {[SpikeDefaults EXCEPT !.price_spike_trading = trading,
                         !.price_spike_require_twitter = twitter] :
     trading \in BOOLEAN, twitter \in BOOLEAN}

Sample(price, timestamp) == [price |-> price, timestamp |-> timestamp]

\* priceHistory[ticker].push(...), then the filter on
\* now - p.timestamp < PRICE_HISTORY_WINDOW_MS
Window(history, currentPrice, t) ==
  SelectSeq(Append(history, Sample(currentPrice, t)),
            LAMBDA p : t - p.timestamp < PRICE_HISTORY_WINDOW_MS)

\* pctChange >= pct / 100 with pctChange = |currentPrice - oldest| / oldest
PctChangeAtLeast(oldest, currentPrice, pct) ==
  Abs(currentPrice - oldest) * 100 >= pct * oldest

\* every move is a candidate alert
CandidateAlertAlwaysMut(oldest, currentPrice) == TRUE
\* pctChange >= PRICE_ALERT_THRESHOLD && oldest.price < 0.90
CandidateAlert(oldest, currentPrice) ==
  /\ PctChangeAtLeast(oldest, currentPrice, PRICE_ALERT_THRESHOLD)
  /\ oldest < 900

\* the volume is never too low for an alert
IsHighVolumeAlwaysMut(v, settings) == TRUE
\* isHighVolume
IsHighVolume(v, settings) == v >= settings.min_volume_for_alert

\* the window is left as it is after an alert
AfterAlertKeepMut(history, currentPrice, t) == history
\* priceHistory[ticker] = [{ price: currentPrice, timestamp: now }]
AfterAlert(history, currentPrice, t) == <<Sample(currentPrice, t)>>

\* priceChange > 0 && pctChange >= spikeThreshold
IsSpike(oldest, currentPrice, settings) ==
  /\ currentPrice > oldest
  /\ PctChangeAtLeast(oldest, currentPrice, settings.price_spike_threshold)

\* Math.min(...history.map(h => h.price))
SessionLow(history) ==
  CHOOSE low \in {history[k].price : k \in DOMAIN history} :
    \A k \in DOMAIN history : low <= history[k].price

\* no protection rejects a spike
SpikeRejectionNeverMut(history, oldPrice, newPrice, settings) == ""
\* the protections of handlePriceSpike, in their order: the reason the
\* spike is not bought, "" when it is
SpikeRejection(history, oldPrice, newPrice, settings) ==
  LET priceCents == Round100(newPrice)
      oldPriceCents == Round100(oldPrice)
      absoluteMoveCents == priceCents - oldPriceCents
  IN IF newPrice < 200 THEN "too cheap"
     ELSE IF absoluteMoveCents < 5 THEN "small move"
     ELSE IF newPrice >= settings.price_spike_max_entry * 10 THEN "too expensive"
     ELSE IF /\ history # <<>>
             /\ (newPrice - SessionLow(history)) * 100 > 40 * SessionLow(history)
       THEN "too late"
     ELSE IF (newPrice - oldPrice) * 100 < settings.price_spike_threshold * oldPrice
       THEN "below threshold"
     ELSE ""

\* Math.round(baseContracts * Math.max(0.15, 0.50 - newPrice * 0.55)),
\* the factor kept in millionths
SpikeContracts(newPrice, baseContracts) ==
  (baseContracts * Max(150000, 500000 - newPrice * 550) + 500000) \div 1000000

\* refreshMarketCache as the monitor sees it: the market's last price
refreshTradeMarkets ==
  /\ gpc = "idle"
  /\ spc = "idle"
  /\ \E t \in Tickers : \E lp \in SpikePrices[t] :
       yes_price' = [yes_price EXCEPT ![t] = CacheFraction(lp)]
  /\ UNCHANGED <<NBA_TRADING_DISABLED, now, recentBuys, gpc, call, result, buyOkAt>>
  /\ UNCHANGED otherVars

\* the pass begins a tick of the main loop after the last one:
\* const now = Date.now()
checkPriceMovements ==
  /\ spc = "idle"
  /\ gpc = "idle"
  /\ now + SpikeStep <= MaxSpikeNow
  /\ now' = now + SpikeStep
  /\ mon' = [NoMonitor EXCEPT !.now = now', !.i = 1]
  /\ spc' = "market"
  /\ UNCHANGED <<NBA_TRADING_DISABLED, recentBuys, yes_price, gpc, call, result, buyOkAt>>
  /\ UNCHANGED <<pureVars, settingsVars, exchangeVars, loopVars, runBotVars, deadlineVars, notifyVars>>
  /\ UNCHANGED <<priceHistory, volume, source_predictions, spikeSettings>>

\* one market of the loop, up to the spike notification
checkPriceMovementsMarket ==
  /\ spc = "market"
  /\ LET ticker == MarketOrder[mon.i]
         currentPrice == yes_price[ticker]
         history == Window(priceHistory[ticker], currentPrice, mon.now)
         oldest == history[1].price
         candidate == /\ Len(history) >= 2
                      /\ CandidateAlert(oldest, currentPrice)
         isVeryHighVolume == volume[ticker] >= spikeSettings.min_volume_for_auto_buy
         spike == IsSpike(oldest, currentPrice, spikeSettings)
         seen == [mon EXCEPT !.ticker = ticker, !.before = priceHistory[ticker]]
     IN IF currentPrice = NULL \/ currentPrice = 0
          THEN /\ mon' = seen
               /\ spc' = "end"
               /\ UNCHANGED priceHistory
        ELSE IF ~candidate
          THEN /\ mon' = [seen EXCEPT !.oldest = oldest,
                            !.currentPrice = currentPrice]
               /\ priceHistory' = [priceHistory EXCEPT ![ticker] = history]
               /\ spc' = "end"
        ELSE IF ~IsHighVolume(volume[ticker], spikeSettings)
          THEN /\ mon' = [seen EXCEPT !.oldest = oldest,
                            !.currentPrice = currentPrice, !.candidate = TRUE]
               /\ priceHistory' =
                    [priceHistory EXCEPT
                       ![ticker] = <<Sample(currentPrice, mon.now)>>]
               /\ spc' = "end"
        ELSE /\ mon' = [seen EXCEPT !.oldest = oldest,
                          !.currentPrice = currentPrice, !.candidate = TRUE,
                          !.events = IF spike THEN {"notification"} ELSE {}]
             /\ priceHistory' = [priceHistory EXCEPT ![ticker] = history]
             /\ spc' = IF /\ spike
                          /\ isVeryHighVolume
                          /\ spikeSettings.price_spike_trading
                         THEN "spike" ELSE "record"
  /\ UNCHANGED <<guardVars, pureVars, settingsVars, exchangeVars, loopVars, runBotVars, deadlineVars, notifyVars>>
  /\ UNCHANGED <<volume, source_predictions, spikeSettings>>

\* handlePriceSpike up to its call of placeOrder
handlePriceSpike ==
  /\ spc = "spike"
  /\ gpc = "idle"
  /\ LET rejection == SpikeRejection(priceHistory[mon.ticker], mon.oldest,
                                     mon.currentPrice, spikeSettings)
         contracts == SpikeContracts(mon.currentPrice,
                                     spikeSettings.price_spike_position_limit)
     IN IF rejection = ""
          THEN /\ mon' = [mon EXCEPT !.events = @ \cup {"market event", "order"}]
               /\ placeOrderEntry(mon.ticker, "yes", "buy", contracts,
                                  spikeSettings.price_spike_max_entry, "Serious")
               /\ spc' = "order"
          ELSE /\ spc' = "record"
               /\ UNCHANGED <<mon, gpc, call, result>>
  /\ UNCHANGED <<NBA_TRADING_DISABLED, now, recentBuys, yes_price, buyOkAt>>
  /\ UNCHANGED <<pureVars, settingsVars, exchangeVars, loopVars, runBotVars, deadlineVars, notifyVars>>
  /\ UNCHANGED <<priceHistory, volume, source_predictions, spikeSettings>>

\* placeOrder has returned to handlePriceSpike, which returns
handlePriceSpikeReturn ==
  /\ spc = "order"
  /\ gpc = "done"
  /\ gpc' = "idle"
  /\ call' = NoCall
  /\ result' = NoResult
  /\ spc' = "record"
  /\ UNCHANGED <<NBA_TRADING_DISABLED, now, recentBuys, yes_price, buyOkAt>>
  /\ UNCHANGED <<pureVars, settingsVars, exchangeVars, loopVars, runBotVars, deadlineVars, notifyVars>>
  /\ UNCHANGED <<priceHistory, volume, source_predictions, spikeSettings, mon>>

\* the price_movement row is stored and the window cleared
checkPriceMovementsRecord ==
  /\ spc = "record"
  /\ mon' = [mon EXCEPT !.events = @ \cup {"alert"}]
  /\ priceHistory' =
       [priceHistory EXCEPT
          ![mon.ticker] = AfterAlert(@, mon.currentPrice, mon.now)]
  /\ spc' = "end"
  /\ UNCHANGED <<guardVars, pureVars, settingsVars, exchangeVars, loopVars, runBotVars, deadlineVars, notifyVars>>
  /\ UNCHANGED <<volume, source_predictions, spikeSettings>>

\* on to the next market, or the pass is over
checkPriceMovementsNext ==
  /\ spc = "end"
  /\ IF mon.i < Len(MarketOrder)
       THEN /\ mon' = [NoMonitor EXCEPT !.now = mon.now, !.i = mon.i + 1]
            /\ spc' = "market"
       ELSE /\ mon' = NoMonitor
            /\ spc' = "idle"
  /\ UNCHANGED <<guardVars, pureVars, settingsVars, exchangeVars, loopVars, runBotVars, deadlineVars, notifyVars>>
  /\ UNCHANGED <<priceHistory, volume, source_predictions, spikeSettings>>

InitSpike ==
  /\ InitGuard
  /\ ~NBA_TRADING_DISABLED
  /\ InitEngine({CHOOSE p \in Portfolios : p["KXNBATRADE-B"].position = 0},
                {ClockStep})
  /\ InitRunBot({"nba-trade-bot-v2"})
  /\ InitMonitor(SpikeSettingsRows, Volumes, BOOLEAN)
  /\ InitDeadline
  /\ inp = NoInput
  /\ out = NoOutput

NextSpike ==
  \/ refreshTradeMarkets
  \/ checkPriceMovements
  \/ checkPriceMovementsMarket
  \/ handlePriceSpike
  \/ placeOrderPrice
  \/ placeOrderSubmit
  \/ placeOrderNotified
  \/ placeOrderRecorded
  \/ handlePriceSpikeReturn
  \/ checkPriceMovementsRecord
  \/ checkPriceMovementsNext

SpecSpike == InitSpike /\ [][NextSpike]_vars

(***************************************************************************)
(* Price movement detection: properties.                                   *)
(***************************************************************************)
\* the samples of the window met by the tick that are still inside it,
\* followed by the tick's own sample
Slid(before, currentPrice, t) ==
  SelectSeq(before, LAMBDA p : t - p.timestamp < PRICE_HISTORY_WINDOW_MS)
    \o <<Sample(currentPrice, t)>>

\* the market at hand has a price, an older sample in its window, and the
\* move from the oldest sample is of at least pct percent
Moved(pct) ==
  LET currentPrice == yes_price[mon.ticker]
      w == Slid(mon.before, currentPrice, mon.now)
  IN /\ mon.ticker # ""
     /\ currentPrice # NULL
     /\ Len(w) >= 2
     /\ Abs(currentPrice - w[1].price) * 100 >= pct * w[1].price

C24_AlertClearsWindow ==
  (spc = "end" /\ "alert" \in mon.events)
  => priceHistory[mon.ticker] = <<Sample(yes_price[mon.ticker], mon.now)>>

\* an alert has been stored after a spike was bought
C24_Witness ==
  /\ spc = "end"
  /\ mon.events = {"notification", "market event", "order", "alert"}
  /\ Len(mon.before) = 2

\* C25: when the handling of a market ends whose move was below 10%, the
\* tick has issued nothing and the window is the one the tick met, without
\* the samples of five minutes ago or older, with the tick's sample appended.
C25_SubThresholdSlides ==
  (/\ spc = "end"
   /\ Moved(0)
   /\ ~Moved(PRICE_ALERT_THRESHOLD))
  => /\ mon.events = {}
     /\ gpc = "idle"
     /\ priceHistory[mon.ticker] =
          Slid(mon.before, yes_price[mon.ticker], mon.now)

\* a move of less than 10% has been handled, one old sample was dropped and
\* the window holds three samples that are not all the same
C25_Witness ==
  /\ spc = "end"
  /\ Moved(0)
  /\ ~Moved(PRICE_ALERT_THRESHOLD)
  /\ Len(mon.before) = 3
  /\ Len(priceHistory[mon.ticker]) = 3
  /\ priceHistory[mon.ticker][2].price # priceHistory[mon.ticker][3].price

\* the lowest price of a window
Lowest(w) ==
  CHOOSE low \in {w[k].price : k \in DOMAIN w} :
    \A k \in DOMAIN w : low <= w[k].price

\* C26: a spike buy reaches the point of being posted to the exchange only
\* when the move from the oldest sample is upward and of at least
\* price_spike_threshold percent, the volume is at least
\* min_volume_for_auto_buy, price_spike_trading is on, the price is at least
\* 20c and below price_spike_max_entry, the move is of at least 5c and the
\* price is at most 40% above the lowest price of the window.
C26_SpikeBuyConditions ==
  (spc = "order" /\ gpc = "submit")
  => LET currentPrice == yes_price[mon.ticker]
         w == Slid(mon.before, currentPrice, mon.now)
         oldest == w[1].price
     IN /\ Moved(spikeSettings.price_spike_threshold)
        /\ currentPrice > oldest
        /\ volume[mon.ticker] >= spikeSettings.min_volume_for_auto_buy
        /\ spikeSettings.price_spike_trading
        /\ currentPrice >= 200
        /\ currentPrice < spikeSettings.price_spike_max_entry * 10
        /\ Round100(currentPrice) - Round100(oldest) >= 5
        /\ (currentPrice - Lowest(w)) * 100 <= 40 * Lowest(w)

\* a spike buy is about to be posted, the window held two samples before
C26_Witness ==
  /\ spc = "order"
  /\ gpc = "submit"
  /\ call.action = "buy"
  /\ Len(mon.before) = 2

\* C27: with price_spike_require_twitter on, a spike buy reaches the point of
\* being posted only when a prediction for the market's player was stored
\* in the last 30 minutes.
C27_SpikeBuyNeedsPrediction ==
  (/\ spc = "order"
   /\ gpc = "submit"
   /\ spikeSettings.price_spike_require_twitter)
  => source_predictions[mon.ticker]

\* C28: a spike buy reaches the point of being posted no sooner than
\* price_spike_cooldown_minutes after the pass that detected the spike.
C28_SpikeBuyAfterCooldown ==
  (spc = "order" /\ gpc = "submit")
  => now >= mon.now + spikeSettings.price_spike_cooldown_minutes * 60000

(***************************************************************************)
(* LLM path: properties.                                                   *)
(***************************************************************************)
\* C31: when analyzeWithLLM returned an analysis, the signals of the tweet
\* are those of the analysis alone; the keyword path has added nothing.
C31_AnalysisSupersedesKeywords ==
  (out.fn = "extractSignalsWithLLM" /\ inp.llm.ok)
  => out.signals = LLMSignals(inp.llm.players)

(***************************************************************************)
(* Position sizing on bounded inputs.                                      *)
(***************************************************************************)
\* positionPct of Serious, Imminent / Negative and Confirmed, in quarters
BasePcts == {1, 2, 4}
SizingScores == {0, 50, 70, 90, 100}
SizingPrices == {0, 1, 30, 50, 70, 99, 100}
\* source reliability multipliers 0.5, 1.0 and 1.5, in hundredths
SizingMultipliers == {50, 100, 150}
BaseContractCounts == {20, 100}

SizingInputs ==
  {[NoInput EXCEPT !.kind = "sizing", !.sizing = z] :
     z \in [basePct : BasePcts, confidenceScore : SizingScores,
            currentPrice : SizingPrices, sourceMultiplier : SizingMultipliers,
            base : BaseContractCounts]}

\* executeSignal's sizing: the fraction, then Math.round(BASE_CONTRACT_COUNT * dynamicPct)
ApplyCalculateDynamicPositionSize ==
  /\ inp.kind = "sizing"
  /\ LET z == inp.sizing
         dynamicPct == calculateDynamicPositionSize(
                         z.basePct, z.confidenceScore, z.currentPrice,
                         z.sourceMultiplier)
     IN out' = [NoOutput EXCEPT !.fn = "calculateDynamicPositionSize",
                  !.value = dynamicPct, !.n = Contracts(z.base, dynamicPct)]
  /\ UNCHANGED <<guardVars, inp, engineVars>>

InitSizing ==
  /\ InitGuard
  /\ InitIdle
  /\ inp \in SizingInputs
  /\ out = NoOutput

NextSizing == ApplyCalculateDynamicPositionSize

SpecSizing == InitSizing /\ [][NextSizing]_vars

(***************************************************************************)
(* Position sizing: properties.                                            *)
(***************************************************************************)
\* C32: the sizing function returns
\* min(basePct * min(2, (100 - currentPrice) / 50) * (0.5 + confidenceScore / 100)
\*       * sourceMultiplier, 2 * basePct)
\* for every input, here in units of 1/2000000.
C32_SizingFormula ==
  out.fn = "calculateDynamicPositionSize"
  => LET z == inp.sizing
     IN out.value =
          Min(z.basePct * Min(100, 100 - z.currentPrice)
                * (50 + z.confidenceScore) * z.sourceMultiplier,
              z.basePct * 1000000)

\* C33 as stated: a Confirmed signal with a score of 90 or more at 70c is
\* sized at the cap, round(base * 2 * basePct) contracts.
C33_ConfirmedAt70ReachesCap ==
  (/\ out.fn = "calculateDynamicPositionSize"
   /\ inp.sizing.basePct = 4
   /\ inp.sizing.confidenceScore >= 90
   /\ inp.sizing.currentPrice = 70)
  => out.n = inp.sizing.base * 2

\* C33: a Confirmed signal with a score of 90 or more at 70c is sized at
\* 0.6 * (0.5 + score / 100) * sourceMultiplier of the base, which is below
\* the cap of twice the base for every multiplier up to 1.5; the contract
\* count is the base times that fraction, rounded.
C33_ConfirmedAt70BelowCap ==
  (/\ out.fn = "calculateDynamicPositionSize"
   /\ inp.sizing.basePct = 4
   /\ inp.sizing.confidenceScore >= 90
   /\ inp.sizing.currentPrice = 70)
  => LET z == inp.sizing
         fraction == 4 * 30 * (50 + z.confidenceScore) * z.sourceMultiplier
     IN /\ out.value = fraction
        /\ out.value < 4 * 1000000
        /\ out.n = (z.base * fraction + 1000000) \div 2000000
        /\ out.n < z.base * 2

\* score 90, multiplier 1.0, base 100: 84 contracts
C33_Witness ==
  /\ out.fn = "calculateDynamicPositionSize"
  /\ inp.sizing.basePct = 4
  /\ inp.sizing.confidenceScore = 90
  /\ inp.sizing.currentPrice = 70
  /\ inp.sizing.sourceMultiplier = 100
  /\ inp.sizing.base = 100
  /\ out.n = 84

(***************************************************************************)
(* The dedup map: properties.                                              *)
(***************************************************************************)
\* C36: the dedup map changes only in the step in which the exchange accepts
\* a buy; a buy stopped by a guard, rejected by the exchange or failed in
\* transit leaves it as it was.
C36_OnlyAcceptedBuyTracked ==
  [][recentBuys' # recentBuys
       => /\ gpc = "submit"
          /\ call.action = "buy"
          /\ call'.accepted]_vars

\* a buy has been rejected by the exchange and its ticker is not in the map
C36_Witness ==
  /\ gpc = "done"
  /\ call.action = "buy"
  /\ call.posts = 1
  /\ result = Failure("rejected")
  /\ recentBuys[call.ticker] = 0

\* C37: while handlePriceSpike is at its order, the price_spike_buy market
\* event has been recorded only if the exchange has accepted the order.
C37_SpikeEventAfterAcceptance ==
  (spc = "order" /\ "market event" \in mon.events) => call.accepted



(***************************************************************************)
(* The deadline scan: NO buys on quiet players in the last 15 minutes.     *)
(***************************************************************************)
\* the trade deadline on the model's clock, and the scan's window before it
DeadlineAt == 1400000
DEADLINE_WINDOW_MS == 900000
DeadlineStep == 300000
MaxDeadlineNow == 1650000

\* last YES prices in cents: NO at 95, 88, 80, 60 and 40
DeadlinePrices == {5, 12, 20, 40, 60}

\* what the source_predictions query comes to: rows, no row, an error
\* object in the response, or an exception
LookupOutcomes == {"rows", "none", "error", "throw"}

\* const { data } = await ...; return (data?.length ?? 0) > 0, and true from
\* the catch block
hasRecentSignal(outcome) ==
  IF outcome = "throw" THEN TRUE ELSE outcome = "rows"

\* opportunities.sort((a, b) => a.noPrice - b.noPrice), which is stable
InsertByNoPrice(sorted, opp) ==
  SelectSeq(sorted, LAMBDA o : o.noPrice <= opp.noPrice)
    \o <<opp>>
    \o SelectSeq(sorted, LAMBDA o : o.noPrice > opp.noPrice)

RECURSIVE SortByNoPrice(_)
SortByNoPrice(opps) ==
  IF opps = <<>> THEN <<>>
  ELSE InsertByNoPrice(SortByNoPrice(SubSeq(opps, 1, Len(opps) - 1)),
                       opps[Len(opps)])

\* refreshMarketCache as the scan sees it: the market's last price
refreshDeadlineMarkets ==
  /\ gpc = "idle"
  /\ dpc = "idle"
  /\ \E t \in Tickers, lp \in DeadlinePrices :
       yes_price' = [yes_price EXCEPT ![t] = CacheFraction(lp)]
  /\ UNCHANGED <<NBA_TRADING_DISABLED, now, recentBuys, gpc, call, result, buyOkAt>>
  /\ UNCHANGED otherVars

\* the scan is called a tick after the last one: it returns outside the
\* final 15 minutes, else lists the markets it has not bought yet
checkDeadlineNoBuying ==
  /\ dpc = "idle"
  /\ gpc = "idle"
  /\ now + DeadlineStep <= MaxDeadlineNow
  /\ now' = now + DeadlineStep
  /\ LET untilDeadline == DeadlineAt - now'
     IN IF untilDeadline > DEADLINE_WINDOW_MS \/ untilDeadline < 0
          THEN UNCHANGED <<dpc, scan>>
          ELSE /\ scan' = [NoScan EXCEPT
                             !.markets =
                               SelectSeq(MarketOrder,
                                         LAMBDA t : t \notin deadlineNoBuysExecuted),
                             !.i = 1]
               /\ dpc' = "scan"
  /\ UNCHANGED <<NBA_TRADING_DISABLED, recentBuys, yes_price, gpc, call, result, buyOkAt>>
  /\ UNCHANGED <<pureVars, settingsVars, exchangeVars, loopVars, runBotVars, spikeVars, notifyVars>>
  /\ UNCHANGED deadlineNoBuysExecuted

\* one market of the first loop: its NO price and, in the band, the lookup
checkDeadlineNoBuyingLookup ==
  /\ dpc = "scan"
  /\ scan.i <= Len(scan.markets)
  /\ LET ticker == scan.markets[scan.i]
         yesPrice == IF yes_price[ticker] = NULL THEN 0
                     ELSE Round100(yes_price[ticker])
         noPrice == 100 - yesPrice
     IN IF noPrice <= 90 /\ noPrice >= 50
          THEN \E outcome \in LookupOutcomes :
                 /\ outcome = "rows" => source_predictions[ticker]
                 /\ outcome = "none" => ~source_predictions[ticker]
                 /\ scan' = [scan EXCEPT
                               !.i = @ + 1,
                               !.opportunities =
                                 Append(@, [ticker |-> ticker,
                                            noPrice |-> noPrice,
                                            hasRecent |-> hasRecentSignal(outcome),
                                            lookup |-> outcome])]
          ELSE scan' = [scan EXCEPT !.i = @ + 1]
  /\ UNCHANGED <<guardVars, pureVars, settingsVars, exchangeVars, loopVars, runBotVars, spikeVars, notifyVars>>
  /\ UNCHANGED <<deadlineNoBuysExecuted, dpc>>

\* the opportunities are sorted, cheapest NO first, and the first ten kept
checkDeadlineNoBuyingSort ==
  /\ dpc = "scan"
  /\ scan.i > Len(scan.markets)
  /\ LET sorted == SortByNoPrice(scan.opportunities)
     IN scan' = [scan EXCEPT
                   !.opportunities = SubSeq(sorted, 1, Min(10, Len(sorted))),
                   !.k = 1]
  /\ dpc' = "buy"
  /\ UNCHANGED <<guardVars, pureVars, settingsVars, exchangeVars, loopVars, runBotVars, spikeVars, notifyVars>>
  /\ UNCHANGED deadlineNoBuysExecuted

\* one opportunity of the second loop, up to its call of placeOrder
checkDeadlineNoBuyingBuy ==
  /\ dpc = "buy"
  /\ gpc = "idle"
  /\ IF scan.k > Len(scan.opportunities)
       THEN /\ dpc' = "idle"
            /\ scan' = NoScan
            /\ UNCHANGED <<gpc, call, result>>
       ELSE LET opp == scan.opportunities[scan.k]
            IN IF /\ opp.noPrice <= 85
                  /\ ~opp.hasRecent
                  /\ opp.ticker \notin deadlineNoBuysExecuted
                 THEN /\ placeOrderEntry(opp.ticker, "no", "buy",
                                         Min(50, BASE_CONTRACT_COUNT),
                                         opp.noPrice, "Confirmed")
                      /\ dpc' = "order"
                      /\ UNCHANGED scan
                 ELSE /\ scan' = [scan EXCEPT !.k = @ + 1]
                      /\ UNCHANGED <<dpc, gpc, call, result>>
  /\ UNCHANGED <<NBA_TRADING_DISABLED, now, recentBuys, yes_price, buyOkAt>>
  /\ UNCHANGED <<pureVars, settingsVars, exchangeVars, loopVars, runBotVars, spikeVars, notifyVars>>
  /\ UNCHANGED deadlineNoBuysExecuted

\* placeOrder has returned: the ticker is marked, whatever the result
checkDeadlineNoBuyingBought ==
  /\ dpc = "order"
  /\ gpc = "done"
  /\ gpc' = "idle"
  /\ call' = NoCall
  /\ result' = NoResult
  /\ deadlineNoBuysExecuted' =
       deadlineNoBuysExecuted \cup {scan.opportunities[scan.k].ticker}
  /\ scan' = [scan EXCEPT !.k = @ + 1]
  /\ dpc' = "buy"
  /\ UNCHANGED <<NBA_TRADING_DISABLED, now, recentBuys, yes_price, buyOkAt>>
  /\ UNCHANGED <<pureVars, settingsVars, exchangeVars, loopVars, runBotVars, spikeVars, notifyVars>>

InitDeadlineScan ==
  /\ InitGuard
  /\ InitEngine({CHOOSE p \in Portfolios : p["KXNBATRADE-B"].position = 0},
                {ClockStep})
  /\ InitRunBot({"nba-trade-bot-v2"})
  /\ InitMonitor({SpikeDefaults}, {0}, BOOLEAN)
  /\ InitDeadline
  /\ inp = NoInput
  /\ out = NoOutput

NextDeadline ==
  \/ refreshDeadlineMarkets
  \/ checkDeadlineNoBuying
  \/ checkDeadlineNoBuyingLookup
  \/ checkDeadlineNoBuyingSort
  \/ checkDeadlineNoBuyingBuy
  \/ placeOrderPrice
  \/ placeOrderSkipped
  \/ placeOrderSubmit
  \/ placeOrderNotified
  \/ placeOrderRecorded
  \/ checkDeadlineNoBuyingBought

SpecDeadline == InitDeadlineScan /\ [][NextDeadline]_vars

\* C38: a deadline NO buy is never ordered for a player whose recent-signal
\* lookup failed in that pass, by an error in the response or by an exception
C38_FailedLookupBlocksBuy ==
  dpc = "order" => scan.opportunities[scan.k].lookup \notin {"error", "throw"}



(***************************************************************************)
(* The settings object and its nested feature toggles.                     *)
(***************************************************************************)
FeatureToggles ==
  {"twitter_monitoring", "price_spike_trading", "orderbook_monitoring",
   "profit_taking", "telegram_notifications"}

\* let botSettings: the defaults of the process
DefaultFeatures ==
  [f \in FeatureToggles |-> f # "price_spike_trading"]

DefaultSettings == Merge(SettingsRows[1], [features |-> DefaultFeatures])

\* the bot_settings row is rewritten at most MaxStored times
MaxStored == 2

\* the settings column of the row is a JSON object: any of its fields, and
\* any of the toggles under features, may be missing from it
StoredFeatures ==
  {DefaultFeatures,
   [DefaultFeatures EXCEPT !["price_spike_trading"] = TRUE],
   [f \in {"price_spike_trading"} |-> TRUE],
   [f \in {"profit_taking", "telegram_notifications"} |-> FALSE]}

StoredSettings ==
  LET flat == {<<>>, [base_contract_count |-> 20], SettingsRows[2]}
      nested == {<<>>} \cup {[features |-> f] : f \in StoredFeatures}
  IN {Merge(a, b) : a \in flat, b \in nested}

\* the row is upserted, by the dashboard of any version or by hand, and the
\* UPDATE is pushed to the bot
upsertBotSettings ==
  /\ bot_settings.updated_at < MaxStored
  /\ \E stored \in StoredSettings :
       bot_settings' = [settings |-> stored,
                        updated_at |-> bot_settings.updated_at + 1]
  /\ pushPending' = TRUE
  /\ UNCHANGED <<botSettings, BASE_CONTRACT_COUNT, settingsLastFetched>>
  /\ UNCHANGED <<guardVars, pureVars, spikeVars, deadlineVars, notifyVars, runBotVars, exchangeVars, loopVars>>

InitSettings ==
  /\ InitGuard
  /\ bot_settings = [settings |-> <<>>, updated_at |-> 0]
  /\ botSettings = DefaultSettings
  /\ BASE_CONTRACT_COUNT = DefaultSettings.base_contract_count
  /\ settingsLastFetched = 0
  /\ pushPending = FALSE
  /\ market_positions = CHOOSE p \in Portfolios : p["KXNBATRADE-B"].position = 0
  /\ restingSells = {}
  /\ pendingSellOrders = {}
  /\ sellTimers = {}
  /\ epc = "idle"
  /\ sig = NoSignal
  /\ pass = NoPass
  /\ requested = <<>>
  /\ InitRunBot({"nba-trade-bot-v2"})
  /\ InitMonitor({SpikeDefaults}, {0}, {FALSE})
  /\ InitDeadline
  /\ inp = NoInput
  /\ out = NoOutput

NextSettings ==
  \/ upsertBotSettings
  \/ loadSettings
  \/ subscribeToSettingsChanges
  \/ Tick

SpecSettings == InitSettings /\ [][NextSettings]_vars

\* C40: whatever was loaded, every field of botSettings holds a value, the
\* five toggles under features included
C40_EveryFieldDefined ==
  /\ DOMAIN botSettings = DOMAIN DefaultSettings
  /\ DOMAIN botSettings.features = FeatureToggles



(***************************************************************************)
(* sendTelegramNotification: the retry loop.                               *)
(***************************************************************************)
\* retries = 3
TELEGRAM_RETRIES == 3

\* what one attempt comes to: response.ok, a 4xx whose body is read, a 4xx
\* whose body read rejects, another status, or a rejected fetch
FetchOutcomes == {"ok", "4xx", "4xx unread", "5xx", "throw"}

RECURSIVE Pow2(_)
Pow2(n) == IF n = 0 THEN 1 ELSE 2 * Pow2(n - 1)

\* const delay = Math.pow(2, attempt) * 500
Backoff(attempt) == Pow2(attempt) * 500

\* the attempt ends in a return (ok, or 4xx once logged); everything else,
\* the exception of response.text() included, goes on to the backoff
Retries(outcome) == outcome \notin {"ok", "4xx"}

\* the call, up to the loop: not configured, or switched off for a message
\* that is not the startup message, it returns at once
sendTelegramNotification ==
  /\ npc = "idle"
  /\ \E configured \in BOOLEAN, startup \in BOOLEAN :
       IF ~configured \/ (~botSettings.features.telegram_notifications /\ ~startup)
         THEN /\ tg' = [NoNotification EXCEPT !.startup = startup]
              /\ npc' = "returned"
         ELSE /\ tg' = [NoNotification EXCEPT !.startup = startup, !.attempt = 1]
              /\ npc' = "fetch"
  /\ UNCHANGED <<guardVars, pureVars, settingsVars, exchangeVars, loopVars, runBotVars>>
  /\ UNCHANGED <<spikeVars, deadlineVars>>

\* one attempt: the POST and what follows it in the loop body
sendTelegramNotificationAttempt ==
  /\ npc = "fetch"
  /\ \E outcome \in FetchOutcomes :
       /\ tg' = [tg EXCEPT
                   !.responses = Append(@, outcome),
                   !.delays = IF Retries(outcome) /\ tg.attempt < TELEGRAM_RETRIES
                                THEN Append(@, Backoff(tg.attempt)) ELSE @]
       /\ npc' = IF Retries(outcome) /\ tg.attempt < TELEGRAM_RETRIES
                   THEN "delay" ELSE "returned"
  /\ UNCHANGED <<guardVars, pureVars, settingsVars, exchangeVars, loopVars, runBotVars>>
  /\ UNCHANGED <<spikeVars, deadlineVars>>

\* the timer of the backoff ran: attempt++
sendTelegramNotificationRetry ==
  /\ npc = "delay"
  /\ tg' = [tg EXCEPT !.attempt = @ + 1]
  /\ npc' = "fetch"
  /\ UNCHANGED <<guardVars, pureVars, settingsVars, exchangeVars, loopVars, runBotVars>>
  /\ UNCHANGED <<spikeVars, deadlineVars>>

InitNotify ==
  /\ InitSettings
  /\ \E f \in {DefaultFeatures,
               [DefaultFeatures EXCEPT !["telegram_notifications"] = FALSE]} :
       botSettings = Merge(DefaultSettings, [features |-> f])

NextNotify ==
  \/ sendTelegramNotification
  \/ sendTelegramNotificationAttempt
  \/ sendTelegramNotificationRetry

SpecNotify == InitNotify /\ [][NextNotify]_vars

\* the delays slept so far, added up
RECURSIVE Sum(_)
Sum(seq) == IF seq = <<>> THEN 0 ELSE seq[1] + Sum(Tail(seq))

\* C34: a send makes at most 3 attempts, each delay between two attempts is
\* longer than the one before (1000 ms, then 2000 ms: 3000 ms at most in
\* all), and no attempt follows a 4xx response
C34_BoundedRetries ==
  /\ Len(tg.responses) <= 3
  /\ Len(tg.delays) <= 2
  /\ \A i \in 1 .. Len(tg.delays) - 1 : tg.delays[i] < tg.delays[i + 1]
  /\ Sum(tg.delays) <= 3000
  /\ \A i \in 1 .. Len(tg.responses) - 1 :
       tg.responses[i] \notin {"4xx", "4xx unread"}



(***************************************************************************)
(* The Super Bowl ad bot: from a tweet to the order.                       *)
(***************************************************************************)
\* the source posts at most MaxAdTweets tweets about ads
MaxAdTweets == 3

\* the brands of BRAND_MATCHES and their markets: the two tickers of the
\* model; a blocked brand and a brand without entry have no market here
AdBrands == Tickers \cup {"blocked", "unknown"}
AdConfidences == {"confirmed", "likely", "rumor"}

\* what analyzeAdTweet makes of a tweet: no signal, or a brand and a
\* confidence
AdSignals ==
  {[brand |-> "", confidence |-> ""]}
    \cup [brand : AdBrands, confidence : AdConfidences]

AD_BASE_CONTRACT_COUNT == 50

\* the switch of executeAdSignal: the share of the base and the max price
AdPositionPct(confidence) ==
  CASE confidence = "confirmed" -> 100
    [] confidence = "likely" -> 50
    [] OTHER -> 0

AdMaxPrice(confidence) ==
  CASE confidence = "confirmed" -> 99
    [] confidence = "likely" -> 90
    [] OTHER -> 0

\* executeAdSignal returns before placeOrder: blocked brand, unknown brand,
\* no market, or a rumor
AdSignalDropped(signal, prices) ==
  \/ signal.brand \notin Tickers
  \/ prices[signal.brand] = NULL
  \/ AdPositionPct(signal.confidence) = 0

\* placeOrder returns before the POST: priced in, or above the max price
AdOrderRefused(currentPrice, maxPrice) ==
  currentPrice >= 98 \/ currentPrice > maxPrice

\* processTweet for a tweet not seen before, through executeAdSignal and
\* placeOrder up to the POST
adProcessTweet ==
  /\ gpc = "idle"
  /\ \E id \in (1 .. MaxAdTweets) \ processedTweets, signal \in AdSignals :
       /\ processedTweets' = processedTweets \cup {id}
       /\ IF \/ signal.brand = ""
             \/ AdSignalDropped(signal, yes_price)
             \/ AdOrderRefused(Round100(yes_price[signal.brand]),
                               AdMaxPrice(signal.confidence))
            THEN UNCHANGED <<gpc, call>>
            ELSE /\ call' =
                      [NoCall EXCEPT
                         !.ticker = signal.brand, !.side = "yes",
                         !.action = "buy",
                         !.count = (AD_BASE_CONTRACT_COUNT
                                      * AdPositionPct(signal.confidence) + 50)
                                     \div 100,
                         !.maxPrice = AdMaxPrice(signal.confidence),
                         !.dedupDue =
                           /\ buyOkAt[signal.brand] # 0
                           /\ now < buyOkAt[signal.brand] + DEDUP_COOLDOWN_MS]
                 /\ gpc' = "submit"
  /\ UNCHANGED <<NBA_TRADING_DISABLED, now, recentBuys, yes_price, result, buyOkAt>>
  /\ UNCHANGED <<script, posted, lastTweetIds, tweets, bot_status,
                 lastProfitTakeCheck, lastTwitterStatusLog, rpc, run, journal,
                 thrown, acted, replayed, restarts>>
  /\ UNCHANGED <<pureVars, settingsVars, exchangeVars, loopVars, spikeVars>>
  /\ UNCHANGED <<deadlineVars, notifyVars>>

\* the POST to /portfolio/orders and its response; the result goes back to
\* executeAdSignal, which drops it
adPlaceOrder ==
  /\ gpc = "submit"
  /\ \E outcome \in PostOutcomes :
       /\ call' = [call EXCEPT
                     !.posts = 1,
                     !.received = IF outcome = "unsent" THEN 0 ELSE 1,
                     !.accepted = outcome = "ok"]
       /\ buyOkAt' = IF outcome = "ok"
                       THEN [buyOkAt EXCEPT ![call.ticker] = now]
                       ELSE buyOkAt
  /\ gpc' = "idle"
  /\ UNCHANGED <<NBA_TRADING_DISABLED, now, recentBuys, yes_price, result>>
  /\ UNCHANGED otherVars

InitAdBot ==
  /\ InitGuard
  /\ InitEngine({CHOOSE p \in Portfolios : p["KXNBATRADE-B"].position = 0},
                {ClockStep})
  /\ InitRunBot({"superbowl-ad-bot"})
  /\ InitMonitor({SpikeDefaults}, {0}, {FALSE})
  /\ InitDeadline
  /\ inp = NoInput
  /\ out = NoOutput

NextAdBot ==
  \/ refreshMarketCache
  \/ Tick
  \/ adProcessTweet
  \/ adPlaceOrder

SpecAdBot == InitAdBot /\ [][NextAdBot]_vars

\* C39: the ad bot posts no buy order for a market less than 5 minutes after
\* a buy order of its own for that market was accepted
C39_AdBotBuysOncePerCooldown ==
  (script = "superbowl-ad-bot" /\ gpc = "submit") => ~call.dedupDue



(***************************************************************************)
(* The tweets of a batch after a failure: properties.                      *)
(***************************************************************************)
\* C35: in a run without restart, when a tick is over every tweet up to the
\* source's last-seen id has been taken up by processTweet: no failure in the
\* tick leaves a tweet behind that the next poll, which asks for newer ids
\* only, will not return
C35_NoTweetSkippedForGood ==
  (restarts = 0 /\ rpc = "sleep") =>
    \A id \in 1 .. lastTweetIds : id \in processedTweets


============================================================================
